---- MODULE Spec2Model ----
(***************************************************************************)
(* A model of the cuSZ default compression path.                           *)
(*                                                                         *)
(*   - the dual-output Lorenzo kernels of kernel/lorenzo.cuh (kept in      *)
(*     src/src/utils/format.cc), thread by thread;                         *)
(*   - the archive orchestrator DefaultPathCompressor of default_path.cuh  *)
(*     (src/unnamed/part_004).                                             *)
(*                                                                         *)
(* Sample values are integers in a fixed unit; the error bound enters as   *)
(* ebx2 = 2*eb in the same unit, so that data[id] * ebx2_r is the exact    *)
(* quotient data[id] / ebx2 and xdata = s' * ebx2 is exact.                *)
(***************************************************************************)
EXTENDS Integers, Sequences, FiniteSets, TLC

(***************************************************************************)
(* Bounds of the model.                                                    *)
(***************************************************************************)
MaxSeed == 2
MaxGain == 2

(***************************************************************************)
(* Program constants.                                                      *)
(***************************************************************************)
BLOCK1D == 256
SEQ1D == 4
XSEQ1D == 8
BLOCK2D == 16
YSEQ2D == 8
BLOCK3D == 8
ErrCtrlBits == 16

Abs(a) == IF a < 0 THEN -a ELSE a

\* round(): nearest integer of n/d (d > 0), halfway cases away from zero
round(n, d) ==
    IF n >= 0 THEN (2 * n + d) \div (2 * d) ELSE -((2 * (-n) + d) \div (2 * d))

\* static_cast<ErrCtrl>(candidate) for the 2-byte error-control type
static_cast_ErrCtrl(v) == v % (2 ^ ErrCtrlBits)

DataLen(c) == c.dimx * c.dimy * c.dimz

stridey(c) == c.dimx

stridez(c) == c.dimx * c.dimy

(***************************************************************************)
(* Post-quantization, shared by the three compress kernels:                *)
(*   bool quantizable = fabs(delta) < radius;                              *)
(*   Data candidate   = delta + radius;                                    *)
(*   outlier = (1 - quantizable) * candidate;                              *)
(*   quant   = quantizable * static_cast<ErrCtrl>(candidate);              *)
(* A non-quantizable candidate is multiplied by 0 after the cast.          *)
(***************************************************************************)
\* mutant: the outlier slot keeps the candidate of a quantizable sample
postquant_keep_candidate(delta, radius) ==
    LET quantizable == Abs(delta) < radius
        candidate == delta + radius
    IN  [outlier |-> candidate,
         quant |-> IF quantizable THEN static_cast_ErrCtrl(candidate) ELSE 0]

\* mutant: the range test is fabs(delta) <= radius
postquant_inclusive(delta, radius) ==
    LET quantizable == Abs(delta) <= radius
        candidate == delta + radius
    IN  [outlier |-> IF quantizable THEN 0 ELSE candidate,
         quant |-> IF quantizable THEN static_cast_ErrCtrl(candidate) ELSE 0]

postquant(delta, radius) ==
    LET quantizable == Abs(delta) < radius
        candidate == delta + radius
    IN  [outlier |-> IF quantizable THEN 0 ELSE candidate,
         quant |-> IF quantizable THEN static_cast_ErrCtrl(candidate) ELSE 0]

(***************************************************************************)
(* 1D compress kernel.  tix in 0..NTHREAD-1, i in 0..SEQ-1.                *)
(***************************************************************************)
NTHREAD1D == BLOCK1D \div SEQ1D

\* load1d, first loop: shmem_data[k] after the striped load of block bix;
\* a slot whose id is outside the grid is never written (c.junk)
load1d_shmem(c, bix, k) ==
    LET id == bix * BLOCK1D + k
    IN  IF id < c.dimx THEN round(c.data[id], c.ebx2) ELSE c.junk

\* load1d: thread_scope[i] = shmem_data[TIX * SEQ + i]
load1d(c, bix, tix, i) == load1d_shmem(c, bix, tix * SEQ1D + i)

\* mutant: no thread looks at the strip before its own
from_last_stripe_none(c, bix, tix) == 0

\* load1d: if (TIX > 0) from_last_stripe = shmem_data[TIX * SEQ - 1]
from_last_stripe(c, bix, tix) ==
    IF tix > 0 THEN load1d_shmem(c, bix, tix * SEQ1D - 1) ELSE 0

\* mutant: every item is predicted as the first point of its strip
pred1d_postquant_first_point(c, bix, tix, i) ==
    postquant(load1d(c, bix, tix, i) - from_last_stripe(c, bix, tix), c.radius)

\* pred1d_postquant<FIRST_POINT = true> (i = 0) and <false> (i >= 1):
\* what the thread leaves in shmem_data / shmem_quant [i + TIX * SEQ]
pred1d_postquant(c, bix, tix, i) ==
    LET delta == IF i = 0
                 THEN load1d(c, bix, tix, 0) - from_last_stripe(c, bix, tix)
                 ELSE load1d(c, bix, tix, i) - load1d(c, bix, tix, i - 1)
    IN  postquant(delta, c.radius)

\* write1d: data[id] = shmem_data[id - id_base], quant[id] = shmem_quant[..]
write1d(c, id) ==
    LET bix == id \div BLOCK1D
        k == id % BLOCK1D
    IN  pred1d_postquant(c, bix, k \div SEQ1D, k % SEQ1D)

c_lorenzo_1d1l(c) ==
    [quant |-> [id \in 0..(c.dimx - 1) |-> write1d(c, id).quant],
     outlier |-> [id \in 0..(c.dimx - 1) |-> write1d(c, id).outlier]]

(***************************************************************************)
(* 1D reconstruct kernel.  The block holds BLOCK / SEQ threads, each with  *)
(* SEQ consecutive items (cub blocked arrangement); item k of block bix is *)
(* id = (BIX * BDX + TIX) * SEQ + i = bix * BLOCK + k.                     *)
(***************************************************************************)
\* mutant: the residual is selected, quant == 0 ? outlier : quant - radius
x_lorenzo_1d1l_fuse_select(c, quant, outlier, id) ==
    IF id < c.dimx
    THEN IF quant[id] = 0 THEN outlier[id] ELSE quant[id] - c.radius
    ELSE 0

\* thread_scope.xdata[i] = id < dimx ? outlier + quant - radius : 0
x_lorenzo_1d1l_fuse(c, quant, outlier, id) ==
    IF id < c.dimx THEN outlier[id] + quant[id] - c.radius ELSE 0

RECURSIVE ThreadScan(_, _, _, _, _, _)
\* the items 0..i of thread tix after the thread's own running sum
ThreadScan(c, quant, outlier, bix, tix, i) ==
    IF i < 0
    THEN <<>>
    ELSE LET below == ThreadScan(c, quant, outlier, bix, tix, i - 1)
         IN  Append(below, (IF i = 0 THEN 0 ELSE below[i])
                           + x_lorenzo_1d1l_fuse(c, quant, outlier,
                                 (bix * (BLOCK1D \div XSEQ1D) + tix) * XSEQ1D + i))

RECURSIVE InclusiveSum(_, _, _, _, _)
\* cub::BlockScan::InclusiveSum over the threads 0..tix of block bix: the
\* scanned items in blocked order, and the aggregate carried to thread tix + 1
InclusiveSum(c, quant, outlier, bix, tix) ==
    IF tix < 0
    THEN [items |-> <<>>, aggregate |-> 0]
    ELSE LET below == InclusiveSum(c, quant, outlier, bix, tix - 1)
             own == ThreadScan(c, quant, outlier, bix, tix, XSEQ1D - 1)
         IN  [items |-> below.items \o [i \in 1..XSEQ1D |-> below.aggregate + own[i]],
              aggregate |-> below.aggregate + own[XSEQ1D]]

RECURSIVE x_lorenzo_1d1l_blocks(_, _, _, _)
\* the scanned items of the blocks 0..bix, one block after the other
x_lorenzo_1d1l_blocks(c, quant, outlier, bix) ==
    IF bix < 0
    THEN <<>>
    ELSE x_lorenzo_1d1l_blocks(c, quant, outlier, bix - 1)
         \o InclusiveSum(c, quant, outlier, bix, (BLOCK1D \div XSEQ1D) - 1).items

\* thread_scope.xdata[i] *= ebx2, and the in-grid part of what BlockStore
\* writes to xdata + (BIX * BDX) * SEQ
x_lorenzo_1d1l(c, quant, outlier) ==
    LET scanned == x_lorenzo_1d1l_blocks(c, quant, outlier, (c.dimx - 1) \div BLOCK1D)
    IN  [id \in 0..(c.dimx - 1) |-> scanned[id + 1] * c.ebx2]

(***************************************************************************)
(* 2D compress kernel: a block is 16 x 2 threads (tix, tiy), each thread   *)
(* holding YSEQ rows of one column in center[1..YSEQ]; center[0] is the    *)
(* row above.                                                              *)
(***************************************************************************)
InGrid2(c, gix, giy) == gix < c.dimx /\ giy < c.dimy

\* load2d_prequant, the loop: center[i + 1] (i in 0..YSEQ-1); Data center[] = {0}
load2d_center(c, bix, biy, tix, tiy, i) ==
    LET gix == bix * BLOCK2D + tix
        giy == biy * BLOCK2D + tiy * YSEQ2D + i
    IN  IF InGrid2(c, gix, giy)
        THEN round(c.data[giy * stridey(c) + gix], c.ebx2)
        ELSE 0

\* load2d_prequant: center[j] for j in 0..YSEQ; center[0] comes from the
\* thread 16 lanes below (same tix, tiy = 0) when TIY == 1
load2d_prequant(c, bix, biy, tix, tiy, j) ==
    IF j = 0
    THEN IF tiy = 1 THEN load2d_center(c, bix, biy, tix, 0, YSEQ2D - 1) ELSE 0
    ELSE load2d_center(c, bix, biy, tix, tiy, j - 1)

\* pred2d, first statement of the loop body: center[i] -= center[i - 1]
pred2d_north(c, bix, biy, tix, tiy, i) ==
    load2d_prequant(c, bix, biy, tix, tiy, i)
    - load2d_prequant(c, bix, biy, tix, tiy, i - 1)

\* pred2d: west = __shfl_up_sync(.., center[i], 1, 16); if (TIX > 0) center[i] -= west
pred2d(c, bix, biy, tix, tiy, i) ==
    pred2d_north(c, bix, biy, tix, tiy, i)
    - (IF tix > 0 THEN pred2d_north(c, bix, biy, tix - 1, tiy, i) ELSE 0)

\* postquant_write2d for the in-grid sample (gix, giy)
postquant_write2d(c, gix, giy) ==
    LET bix == gix \div BLOCK2D
        tix == gix % BLOCK2D
        biy == giy \div BLOCK2D
        tiy == (giy % BLOCK2D) \div YSEQ2D
        i == ((giy % BLOCK2D) % YSEQ2D) + 1
    IN  postquant(pred2d(c, bix, biy, tix, tiy, i), c.radius)

c_lorenzo_2d1l_16x16data_mapto16x2(c) ==
    [quant |-> [gid \in 0..(DataLen(c) - 1) |->
        postquant_write2d(c, gid % stridey(c), gid \div stridey(c)).quant],
     outlier |-> [gid \in 0..(DataLen(c) - 1) |->
        postquant_write2d(c, gid % stridey(c), gid \div stridey(c)).outlier]]

(***************************************************************************)
(* 2D reconstruct kernel.                                                  *)
(***************************************************************************)
\* thread_scope[i] after the fused load
\* mutant: the residual is selected, quant == 0 ? outlier : quant - radius
x_lorenzo_2d1l_fuse_select(c, quant, outlier, gix, giy) ==
    IF InGrid2(c, gix, giy)
    THEN IF quant[giy * stridey(c) + gix] = 0
         THEN outlier[giy * stridey(c) + gix]
         ELSE quant[giy * stridey(c) + gix] - c.radius
    ELSE 0

\* thread_scope[i] = outlier[gid] + quant[gid] - radius inside the grid, else 0
x_lorenzo_2d1l_fuse(c, quant, outlier, gix, giy) ==
    IF InGrid2(c, gix, giy)
    THEN outlier[giy * stridey(c) + gix] + quant[giy * stridey(c) + gix] - c.radius
    ELSE 0

RECURSIVE x_lorenzo_2d1l_ysum(_, _, _, _, _, _, _)
\* partial sum along y inside one thread: thread_scope[i] += thread_scope[i - 1]
x_lorenzo_2d1l_ysum(c, quant, outlier, bix, biy, tix, tiy_i) ==
    LET tiy == tiy_i[1]
        i == tiy_i[2]
        gix == bix * BLOCK2D + tix
        giy == biy * BLOCK2D + tiy * YSEQ2D + i
    IN  x_lorenzo_2d1l_fuse(c, quant, outlier, gix, giy)
        + (IF i > 0
           THEN x_lorenzo_2d1l_ysum(c, quant, outlier, bix, biy, tix, <<tiy, i - 1>>)
           ELSE 0)

\* two-pass: intermediate[TIX] = thread_scope[YSEQ - 1] of TIY == 0, added by TIY == 1
x_lorenzo_2d1l_yscan(c, quant, outlier, bix, biy, tix, tiy_i) ==
    x_lorenzo_2d1l_ysum(c, quant, outlier, bix, biy, tix, tiy_i)
    + (IF tiy_i[1] = 1
       THEN x_lorenzo_2d1l_ysum(c, quant, outlier, bix, biy, tix, <<0, YSEQ2D - 1>>)
       ELSE 0)

RECURSIVE x_lorenzo_2d1l_xscan(_, _, _, _, _, _, _, _)
\* in-warp partial sum along x: the value of thread tix after the shuffle
\* rounds d = 1, 2, .. below dist (n = __shfl_up_sync(.., i, d, 16))
x_lorenzo_2d1l_xscan(c, quant, outlier, bix, biy, tix, tiy_i, dist) ==
    IF dist = 1
    THEN x_lorenzo_2d1l_yscan(c, quant, outlier, bix, biy, tix, tiy_i)
    ELSE LET d == dist \div 2
         IN  x_lorenzo_2d1l_xscan(c, quant, outlier, bix, biy, tix, tiy_i, d)
             + (IF tix >= d
                THEN x_lorenzo_2d1l_xscan(c, quant, outlier, bix, biy, tix - d, tiy_i, d)
                ELSE 0)

x_lorenzo_2d1l_16x16data_mapto16x2(c, quant, outlier) ==
    [gid \in 0..(DataLen(c) - 1) |->
        LET gix == gid % stridey(c)
            giy == gid \div stridey(c)
        IN  x_lorenzo_2d1l_xscan(c, quant, outlier, gix \div BLOCK2D, giy \div BLOCK2D,
                gix % BLOCK2D,
                <<(giy % BLOCK2D) \div YSEQ2D, (giy % BLOCK2D) % YSEQ2D>>,
                BLOCK2D) * c.ebx2]

(***************************************************************************)
(* 3D compress kernel: a block is 32 x 1 x 8 threads (tix, tiz) over a     *)
(* 32 x 8 x 8 tile of data; b = <<BIX, BIY, BIZ>>.                         *)
(***************************************************************************)
InGrid3(c, gix, giy, giz) == gix < c.dimx /\ giy < c.dimy /\ giz < c.dimz

\* shmem[z][y][TIX] after the load; a slot outside the grid is never written
c_lorenzo_3d1l_shmem(c, b, z, y, tix) ==
    LET gix == b[1] * (BLOCK3D * 4) + tix
        giy == b[2] * BLOCK3D + y
        giz == b[3] * BLOCK3D + z
    IN  IF InGrid3(c, gix, giy, giz)
        THEN round(c.data[gix + giy * stridey(c) + giz * stridez(c)], c.ebx2)
        ELSE c.junk

\* mutant: the x-neighbour is taken over the whole row of 32, x = TIX
c_lorenzo_3d1l_delta_whole_row(c, b, z, y, tix) ==
    LET x == tix
    IN  c_lorenzo_3d1l_shmem(c, b, z, y, tix)
        - ( (IF z > 0 /\ y > 0 /\ x > 0
             THEN c_lorenzo_3d1l_shmem(c, b, z - 1, y - 1, tix - 1) ELSE 0)
          - (IF y > 0 /\ x > 0 THEN c_lorenzo_3d1l_shmem(c, b, z, y - 1, tix - 1) ELSE 0)
          - (IF z > 0 /\ x > 0 THEN c_lorenzo_3d1l_shmem(c, b, z - 1, y, tix - 1) ELSE 0)
          - (IF z > 0 /\ y > 0 THEN c_lorenzo_3d1l_shmem(c, b, z - 1, y - 1, tix) ELSE 0)
          + (IF x > 0 THEN c_lorenzo_3d1l_shmem(c, b, z, y, tix - 1) ELSE 0)
          + (IF y > 0 THEN c_lorenzo_3d1l_shmem(c, b, z, y - 1, tix) ELSE 0)
          + (IF z > 0 THEN c_lorenzo_3d1l_shmem(c, b, z - 1, y, tix) ELSE 0) )

\* the prediction: delta of thread (tix, z) at row y, with x = TIX % 8
c_lorenzo_3d1l_delta(c, b, z, y, tix) ==
    LET x == tix % BLOCK3D
    IN  c_lorenzo_3d1l_shmem(c, b, z, y, tix)
        - ( (IF z > 0 /\ y > 0 /\ x > 0
             THEN c_lorenzo_3d1l_shmem(c, b, z - 1, y - 1, tix - 1) ELSE 0)
          - (IF y > 0 /\ x > 0 THEN c_lorenzo_3d1l_shmem(c, b, z, y - 1, tix - 1) ELSE 0)
          - (IF z > 0 /\ x > 0 THEN c_lorenzo_3d1l_shmem(c, b, z - 1, y, tix - 1) ELSE 0)
          - (IF z > 0 /\ y > 0 THEN c_lorenzo_3d1l_shmem(c, b, z - 1, y - 1, tix) ELSE 0)
          + (IF x > 0 THEN c_lorenzo_3d1l_shmem(c, b, z, y, tix - 1) ELSE 0)
          + (IF y > 0 THEN c_lorenzo_3d1l_shmem(c, b, z, y - 1, tix) ELSE 0)
          + (IF z > 0 THEN c_lorenzo_3d1l_shmem(c, b, z - 1, y, tix) ELSE 0) )

\* the guarded write of the in-grid sample (gix, giy, giz)
c_lorenzo_3d1l_write(c, gix, giy, giz) ==
    LET b == <<gix \div (BLOCK3D * 4), giy \div BLOCK3D, giz \div BLOCK3D>>
    IN  postquant(
            c_lorenzo_3d1l_delta(c, b, giz % BLOCK3D, giy % BLOCK3D, gix % (BLOCK3D * 4)),
            c.radius)

GixOf(c, gid) == gid % stridey(c)

GiyOf(c, gid) == (gid % stridez(c)) \div stridey(c)

GizOf(c, gid) == gid \div stridez(c)

c_lorenzo_3d1l_32x8x8data_mapto32x1x8(c) ==
    [quant |-> [gid \in 0..(DataLen(c) - 1) |->
        c_lorenzo_3d1l_write(c, GixOf(c, gid), GiyOf(c, gid), GizOf(c, gid)).quant],
     outlier |-> [gid \in 0..(DataLen(c) - 1) |->
        c_lorenzo_3d1l_write(c, GixOf(c, gid), GiyOf(c, gid), GizOf(c, gid)).outlier]]

(***************************************************************************)
(* 3D reconstruct kernel.  qo = [quant, outlier]; t = <<seg_id, seg_tix,   *)
(* TIZ>> with TIX = seg_id * 8 + seg_tix.                                  *)
(***************************************************************************)
x_lorenzo_3d1l_fuse(c, qo, gix, giy, giz) ==
    LET gid == giz * stridez(c) + giy * stridey(c) + gix
    IN  IF InGrid3(c, gix, giy, giz)
        THEN qo.outlier[gid] + qo.quant[gid] - c.radius
        ELSE 0

RECURSIVE x_lorenzo_3d1l_ysum(_, _, _, _, _)
\* partial sum along y inside one thread: thread_scope[y] += thread_scope[y - 1]
x_lorenzo_3d1l_ysum(c, qo, b, t, y) ==
    x_lorenzo_3d1l_fuse(c, qo, b[1] * (4 * BLOCK3D) + t[1] * BLOCK3D + t[2],
                        b[2] * BLOCK3D + y, b[3] * BLOCK3D + t[3])
    + (IF y > 0 THEN x_lorenzo_3d1l_ysum(c, qo, b, t, y - 1) ELSE 0)

RECURSIVE x_lorenzo_3d1l_xscan(_, _, _, _, _, _)
\* first shuffle loop: val after the rounds below dist
\* (addend = __shfl_up_sync(.., val, dist, 8); if (seg_tix >= dist) val += addend)
x_lorenzo_3d1l_xscan(c, qo, b, t, y, dist) ==
    IF dist = 1
    THEN x_lorenzo_3d1l_ysum(c, qo, b, t, y)
    ELSE LET d == dist \div 2
         IN  x_lorenzo_3d1l_xscan(c, qo, b, t, y, d)
             + (IF t[2] >= d
                THEN x_lorenzo_3d1l_xscan(c, qo, b, <<t[1], t[2] - d, t[3]>>, y, d)
                ELSE 0)

\* x-z transpose: intermediate[TIZ][seg_id][seg_tix] = val;
\*                val = intermediate[seg_tix][seg_id][TIZ]
x_lorenzo_3d1l_transpose1(c, qo, b, t, y) ==
    x_lorenzo_3d1l_xscan(c, qo, b, <<t[1], t[3], t[2]>>, y, BLOCK3D)

RECURSIVE x_lorenzo_3d1l_zscan(_, _, _, _, _, _)
\* second shuffle loop, on the transposed values
x_lorenzo_3d1l_zscan(c, qo, b, t, y, dist) ==
    IF dist = 1
    THEN x_lorenzo_3d1l_transpose1(c, qo, b, t, y)
    ELSE LET d == dist \div 2
         IN  x_lorenzo_3d1l_zscan(c, qo, b, t, y, d)
             + (IF t[2] >= d
                THEN x_lorenzo_3d1l_zscan(c, qo, b, <<t[1], t[2] - d, t[3]>>, y, d)
                ELSE 0)

\* transpose back: thread_scope[i] = val
x_lorenzo_3d1l_transpose2(c, qo, b, t, y) ==
    x_lorenzo_3d1l_zscan(c, qo, b, <<t[1], t[3], t[2]>>, y, BLOCK3D)

x_lorenzo_3d1l_32x8x8data_mapto32x1x8(c, qo) ==
    [gid \in 0..(DataLen(c) - 1) |->
        LET gix == GixOf(c, gid)
            giy == GiyOf(c, gid)
            giz == GizOf(c, gid)
            tix == gix % (4 * BLOCK3D)
        IN  x_lorenzo_3d1l_transpose2(c, qo,
                <<gix \div (4 * BLOCK3D), giy \div BLOCK3D, giz \div BLOCK3D>>,
                <<tix \div BLOCK3D, tix % BLOCK3D, giz % BLOCK3D>>,
                giy % BLOCK3D) * c.ebx2]

(***************************************************************************)
(* 3D reconstruct kernel, the variant x_lorenzo_3d1lvar: one running sum   *)
(* per thread instead of the array thread_scope[YSEQ]; the scans and the   *)
(* store are inside the loop over y.                                       *)
(***************************************************************************)
\* mutant: the running sum restarts at every row, thread_scope = fuse
x_lorenzo_3d1lvar_restart(c, qo, b, t, y) ==
    LET gix == b[1] * (4 * BLOCK3D) + t[1] * BLOCK3D + t[2]
        giy == b[2] * BLOCK3D + y
        giz == b[3] * BLOCK3D + t[3]
    IN  IF InGrid3(c, gix, giy, giz)
        THEN qo.outlier[giz * stridez(c) + giy * stridey(c) + gix]
             + qo.quant[giz * stridez(c) + giy * stridey(c) + gix] - c.radius
        ELSE 0

RECURSIVE x_lorenzo_3d1lvar_thread_scope(_, _, _, _, _)
\* Data thread_scope = 0; in the loop over y, under the in-grid test:
\* thread_scope += outlier[gid] + static_cast<Data>(quant[gid]) - radius
x_lorenzo_3d1lvar_thread_scope(c, qo, b, t, y) ==
    LET gix == b[1] * (4 * BLOCK3D) + t[1] * BLOCK3D + t[2]
        giy == b[2] * BLOCK3D + y
        giz == b[3] * BLOCK3D + t[3]
    IN  (IF y > 0 THEN x_lorenzo_3d1lvar_thread_scope(c, qo, b, t, y - 1) ELSE 0)
        + (IF InGrid3(c, gix, giy, giz)
           THEN qo.outlier[giz * stridez(c) + giy * stridey(c) + gix]
                + qo.quant[giz * stridez(c) + giy * stridey(c) + gix] - c.radius
           ELSE 0)

RECURSIVE x_lorenzo_3d1lvar_xscan(_, _, _, _, _, _)
\* Data val = thread_scope, then the first shuffle loop
x_lorenzo_3d1lvar_xscan(c, qo, b, t, y, dist) ==
    IF dist = 1
    THEN x_lorenzo_3d1lvar_thread_scope(c, qo, b, t, y)
    ELSE LET d == dist \div 2
         IN  x_lorenzo_3d1lvar_xscan(c, qo, b, t, y, d)
             + (IF t[2] >= d
                THEN x_lorenzo_3d1lvar_xscan(c, qo, b, <<t[1], t[2] - d, t[3]>>, y, d)
                ELSE 0)

RECURSIVE x_lorenzo_3d1lvar_zscan(_, _, _, _, _, _)
\* the x-z transpose (val = intermediate[seg_tix][seg_id][TIZ]), then the
\* second shuffle loop
x_lorenzo_3d1lvar_zscan(c, qo, b, t, y, dist) ==
    IF dist = 1
    THEN x_lorenzo_3d1lvar_xscan(c, qo, b, <<t[1], t[3], t[2]>>, y, BLOCK3D)
    ELSE LET d == dist \div 2
         IN  x_lorenzo_3d1lvar_zscan(c, qo, b, t, y, d)
             + (IF t[2] >= d
                THEN x_lorenzo_3d1lvar_zscan(c, qo, b, <<t[1], t[2] - d, t[3]>>, y, d)
                ELSE 0)

\* the transpose back and the guarded store xdata[get_gid(y)] = val * ebx2
x_lorenzo_3d1lvar_32x8x8data_mapto32x1x8(c, qo) ==
    [gid \in 0..(DataLen(c) - 1) |->
        LET gix == GixOf(c, gid)
            giy == GiyOf(c, gid)
            giz == GizOf(c, gid)
            tix == gix % (4 * BLOCK3D)
        IN  x_lorenzo_3d1lvar_zscan(c, qo,
                <<gix \div (4 * BLOCK3D), giy \div BLOCK3D, giz \div BLOCK3D>>,
                <<tix \div BLOCK3D, giz % BLOCK3D, tix % BLOCK3D>>,
                giy % BLOCK3D, BLOCK3D) * c.ebx2]

(***************************************************************************)
(* Kernel launches: the state of one compress / reconstruct pair.          *)
(*   kin      the launch arguments (shape, radius, ebx2) and the input     *)
(*   kquant   the quant-code array written by the compress kernel          *)
(*   koutlier the dense outlier array written by the compress kernel       *)
(*   kxdata   the array written by the reconstruct kernel                  *)
(*   kpc      "input" -> "compressed" -> "reconstructed", or               *)
(*            "reconstructed_var" after the variant 3D kernel              *)
(***************************************************************************)
VARIABLES kin, kquant, koutlier, kxdata, kpc

kvars == <<kin, kquant, koutlier, kxdata, kpc>>

(***************************************************************************)
(* State of one DefaultPathCompressor and of its caller.                   *)
(*   data_size                 dim3 const data_size                        *)
(*   use_fallback_codec        the member of that name                     *)
(*   fallback_codec_allocated  the member of that name                     *)
(*   codec_allocated           whether codec->allocate_workspace ran       *)
(*   density_factor            the factor the gatherer was allocated with  *)
(*   d_reserved_compressed     the reserved buffer: nullptr, or a device   *)
(*                             buffer of nword 4-byte words                *)
(*   header                    the member of that name                     *)
(*   uncompressed              the caller's array passed to compress       *)
(*   compressed, compressed_len  the caller's output parameters            *)
(*   last                      the last call: its arguments, the stages    *)
(*                             it ran in order and how it ended            *)
(*   deleted                   how many times delete ran on the object     *)
(*                             each pointer member was given by new        *)
(* Byte counts are kept in 4-byte words: every subfile length and every    *)
(* offset of the archive is a multiple of 4.                               *)
(***************************************************************************)
VARIABLES data_size, use_fallback_codec, fallback_codec_allocated,
          codec_allocated, density_factor, d_reserved_compressed, header,
          uncompressed, compressed, compressed_len, last, deleted

ovars == <<data_size, use_fallback_codec, fallback_codec_allocated,
           codec_allocated, density_factor, d_reserved_compressed, header,
           uncompressed, compressed, compressed_len, last, deleted>>

(***************************************************************************)
(* State of one run of a command-line driver.                              *)
(*   ctx    the parsed command line: which driver it is, huff_nbyte and    *)
(*          the tasks asked for                                            *)
(*   huff   the Huffman type the run instantiated for each direction       *)
(*   dpc    "start" -> "constructed" -> "done", or "exit" / "thrown"       *)
(***************************************************************************)
VARIABLES ctx, huff, dpc

dvars == <<ctx, huff, dpc>>

vars == <<kin, kquant, koutlier, kxdata, kpc,
          data_size, use_fallback_codec, fallback_codec_allocated,
          codec_allocated, density_factor, d_reserved_compressed, header,
          uncompressed, compressed, compressed_len, last, deleted,
          ctx, huff, dpc>>

nullptr == "nullptr"

\* the pointer members: Predictor*, SpReducer*, Codec*, FallbackCodec*
Members == {"predictor", "spreducer", "codec", "fb_codec"}

\* no compressor object exists: the kernels are launched on their own
NoCompressor ==
    /\ data_size = <<0, 0, 0>>
    /\ use_fallback_codec = FALSE
    /\ fallback_codec_allocated = FALSE
    /\ codec_allocated = FALSE
    /\ density_factor = 0
    /\ d_reserved_compressed = [ptr |-> nullptr, nword |-> 0]
    /\ header = <<>>
    /\ uncompressed = <<>>
    /\ compressed = nullptr
    /\ compressed_len = [assigned |-> FALSE, value |-> 0]
    /\ last = [op |-> "none"]
    /\ deleted = [p \in Members |-> 0]

\* no kernel is launched on its own: the compressor drives them
NoKernel ==
    /\ kin = <<>>
    /\ kquant = <<>>
    /\ koutlier = <<>>
    /\ kxdata = <<>>
    /\ kpc = "idle"

\* no driver is running
NoDriver ==
    /\ ctx = <<>>
    /\ huff = <<>>
    /\ dpc = "idle"

\* shapes <<rank, dimx, dimy, dimz>>: inside one tile, across a strip
\* boundary, across a tile boundary, and not a multiple of the tile
Shapes ==
    { <<1, 1, 1, 1>>, <<1, 5, 1, 1>>, <<1, 257, 1, 1>>,
      <<2, 3, 3, 1>>, <<2, 17, 2, 1>>, <<2, 2, 9, 1>>, <<2, 2, 17, 1>>,
      <<3, 3, 3, 3>>, <<3, 9, 2, 2>>, <<3, 33, 1, 2>>, <<3, 2, 9, 2>>, <<3, 2, 2, 9>> }

\* 32768 is the largest radius whose codes 1 .. 2 * radius - 1 fit ErrCtrl
Radii == {2, 4, 2 ^ (ErrCtrlBits - 1)}

Ebx2s == {2, 3}

Junks == {0, 13}

MixTable == <<0, 1, -3, 4, 7, -8, 2, 12, 5, -1, 3>>

SpikeIdx == {0, 1, 2, 8, 16, 255, 256}

\* the sample at linear index gid of the input named by gen
Sample(gen, sh, radius, ebx2, gid) ==
    LET gx == gid % sh[2]
        gy == (gid \div sh[2]) % sh[3]
        gz == gid \div (sh[2] * sh[3])
    IN  CASE gen.kind = "mix" ->
                MixTable[(((gid + 1) * (gid + gen.p + 1) + 3 * gen.p) % Len(MixTable)) + 1]
          [] gen.kind = "const" -> MixTable[gen.p + 2]
          [] gen.kind = "ramp" -> gen.p * (gx + gy + gz)
          [] gen.kind = "spike" -> IF gid = gen.at THEN gen.p * radius * ebx2 ELSE 0
          [] gen.kind = "edge" -> IF gid = gen.at THEN (radius - 1) * ebx2 ELSE 0

Generators(sh) ==
    [kind : {"mix", "const"}, p : 0..MaxSeed, at : {0}]
    \cup [kind : {"ramp"}, p : 1..MaxGain, at : {0}]
    \cup [kind : {"spike"}, p : (-1..MaxGain) \ {0},
          at : SpikeIdx \cap (0..(sh[2] * sh[3] * sh[4] - 1))]
    \cup [kind : {"edge"}, p : {1},
          at : SpikeIdx \cap (0..(sh[2] * sh[3] * sh[4] - 1))]

KernelInput(sh, radius, ebx2, junk, gen) ==
    [rank |-> sh[1], dimx |-> sh[2], dimy |-> sh[3], dimz |-> sh[4],
     radius |-> radius, ebx2 |-> ebx2, junk |-> junk,
     data |-> [gid \in 0..(sh[2] * sh[3] * sh[4] - 1) |->
                 Sample(gen, sh, radius, ebx2, gid)]]

KInit ==
    /\ \E sh \in Shapes, radius \in Radii, ebx2 \in Ebx2s, junk \in Junks :
         \E gen \in Generators(sh) :
            kin = KernelInput(sh, radius, ebx2, junk, gen)
    /\ NoCompressor
    /\ NoDriver
    /\ kquant = <<>>
    /\ koutlier = <<>>
    /\ kxdata = <<>>
    /\ kpc = "input"

Launch_c_lorenzo_1d1l ==
    /\ kpc = "input"
    /\ kin.rank = 1
    /\ kquant' = c_lorenzo_1d1l(kin).quant
    /\ koutlier' = c_lorenzo_1d1l(kin).outlier
    /\ kpc' = "compressed"
    /\ UNCHANGED <<kin, kxdata>>
    /\ UNCHANGED ovars
    /\ UNCHANGED dvars

Launch_c_lorenzo_2d1l ==
    /\ kpc = "input"
    /\ kin.rank = 2
    /\ kquant' = c_lorenzo_2d1l_16x16data_mapto16x2(kin).quant
    /\ koutlier' = c_lorenzo_2d1l_16x16data_mapto16x2(kin).outlier
    /\ kpc' = "compressed"
    /\ UNCHANGED <<kin, kxdata>>
    /\ UNCHANGED ovars
    /\ UNCHANGED dvars

Launch_c_lorenzo_3d1l ==
    /\ kpc = "input"
    /\ kin.rank = 3
    /\ kquant' = c_lorenzo_3d1l_32x8x8data_mapto32x1x8(kin).quant
    /\ koutlier' = c_lorenzo_3d1l_32x8x8data_mapto32x1x8(kin).outlier
    /\ kpc' = "compressed"
    /\ UNCHANGED <<kin, kxdata>>
    /\ UNCHANGED ovars
    /\ UNCHANGED dvars

Launch_x_lorenzo_1d1l ==
    /\ kpc = "compressed"
    /\ kin.rank = 1
    /\ kxdata' = x_lorenzo_1d1l(kin, kquant, koutlier)
    /\ kpc' = "reconstructed"
    /\ UNCHANGED <<kin, kquant, koutlier>>
    /\ UNCHANGED ovars
    /\ UNCHANGED dvars

Launch_x_lorenzo_2d1l ==
    /\ kpc = "compressed"
    /\ kin.rank = 2
    /\ kxdata' = x_lorenzo_2d1l_16x16data_mapto16x2(kin, kquant, koutlier)
    /\ kpc' = "reconstructed"
    /\ UNCHANGED <<kin, kquant, koutlier>>
    /\ UNCHANGED ovars
    /\ UNCHANGED dvars

Launch_x_lorenzo_3d1l ==
    /\ kpc = "compressed"
    /\ kin.rank = 3
    /\ kxdata' = x_lorenzo_3d1l_32x8x8data_mapto32x1x8(kin,
                    [quant |-> kquant, outlier |-> koutlier])
    /\ kpc' = "reconstructed"
    /\ UNCHANGED <<kin, kquant, koutlier>>
    /\ UNCHANGED ovars
    /\ UNCHANGED dvars

Launch_x_lorenzo_3d1lvar ==
    /\ kpc = "compressed"
    /\ kin.rank = 3
    /\ kxdata' = x_lorenzo_3d1lvar_32x8x8data_mapto32x1x8(kin,
                    [quant |-> kquant, outlier |-> koutlier])
    /\ kpc' = "reconstructed_var"
    /\ UNCHANGED <<kin, kquant, koutlier>>
    /\ UNCHANGED ovars
    /\ UNCHANGED dvars

KNext ==
    \/ Launch_c_lorenzo_1d1l
    \/ Launch_c_lorenzo_2d1l
    \/ Launch_c_lorenzo_3d1l
    \/ Launch_x_lorenzo_1d1l
    \/ Launch_x_lorenzo_2d1l
    \/ Launch_x_lorenzo_3d1l
    \/ Launch_x_lorenzo_3d1lvar

SpecLorenzo == KInit /\ [][KNext]_vars

(***************************************************************************)
(* DefaultPathCompressor (default_path.cuh).                               *)
(*                                                                         *)
(* A call is one action.  Its body is a function of an environment record  *)
(* e holding the members, the locals of the call, the caller's buffers,    *)
(* the arguments (e.arg), the ordered list of the stages that ran          *)
(* (e.events) and the exception in flight (e.thrown).                      *)
(***************************************************************************)
sizeof_T == 4

HEADER_NBYTE == 128

\* subfile slots of header.entry[]
HEADER == 0

ANCHOR == 1

VLE == 2

SPFMT == 3

END == 4

\* number of 4-byte words of a byte count
Words(nbyte) == nbyte \div sizeof_T

\* narrowing of a length to uint32_t, lengths being counted in 4-byte words
static_cast_uint32(nword) == nword % (2 ^ 30)

Ev(ev, f, a, b) == [ev |-> ev, f |-> f, a |-> a, b |-> b]

\* an exception is in flight: every later stage of the call is skipped
Thrown(e) == e.thrown # "none"

get_data_len(xyz) == xyz[1] * xyz[2] * xyz[3]

\* Reinterpret1DTo2D::get_square_size: the least m with m * m >= len
get_square_size(len) == CHOOSE m \in 0..len : m * m >= len /\ \A k \in 0..(m - 1) : k * k < len

\* the kernel the predictor launches for a shape
PredictorRank(xyz) == IF xyz[3] > 1 THEN 3 ELSE IF xyz[2] > 1 THEN 2 ELSE 1

get_anchor_len(xyz) == 0

\* predictor.construct(uncompressed, eb, radius, d_anchor, d_errctrl, stream)
construct(xyz, data, ebx2, radius) ==
    LET c == [rank |-> PredictorRank(xyz), dimx |-> xyz[1], dimy |-> xyz[2],
              dimz |-> xyz[3], radius |-> radius, ebx2 |-> ebx2, junk |-> 0,
              data |-> data]
    IN  CASE c.rank = 1 -> c_lorenzo_1d1l(c)
          [] c.rank = 2 -> c_lorenzo_2d1l_16x16data_mapto16x2(c)
          [] c.rank = 3 -> c_lorenzo_3d1l_32x8x8data_mapto32x1x8(c)

\* mutant: the predictor writes the outliers to a buffer of its own
predictor_do_own_outlier(e) ==
    LET r == construct(e.data_size, e.uncompressed, e.arg.ebx2, e.arg.radius)
    IN  [e EXCEPT !.d_errctrl = r.quant,
                  !.events = Append(@, Ev("construct", "predictor", 0, 0))]

\* predictor_do: the quant codes go to d_errctrl, the outliers replace the
\* samples of the array the caller passed ("reuse data for outlier")
predictor_do(e) ==
    LET r == construct(e.data_size, e.uncompressed, e.arg.ebx2, e.arg.radius)
    IN  [e EXCEPT !.d_errctrl = r.quant,
                  !.uncompressed = r.outlier,
                  !.events = Append(@, Ev("construct", "predictor", 0, 0))]

\* number of non-zero elements of a dense array
nnz(dense) == Cardinality({i \in DOMAIN dense : dense[i] # 0})

\* length in words of the blob (nnz, m, rowptr[m+1], colidx[nnz], values[nnz])
csr_nword(m, n) == 2 + (m + 1) + 2 * n

\* spreducer.gather(uncompressed, m * m, d_spfmt, spfmt_out_len, stream)
gather(e, in) ==
    LET n == nnz(in)
        m == get_square_size(get_data_len(e.data_size))
    IN  IF n > get_data_len(e.data_size) \div e.density_factor
        THEN [e EXCEPT !.thrown = "runtime_error",
                       !.events = Append(@, Ev("gather", "capacity exceeded", n, 0))]
        ELSE [e EXCEPT !.spfmt_out_len = csr_nword(m, n),
                       !.events = Append(@, Ev("gather", "ok", n, csr_nword(m, n)))]

spreducer_do(e) == IF Thrown(e) THEN e ELSE gather(e, e.uncompressed)

\* mutant: a run adds the length of its stream to what codec_out_len holds
encode_accumulating(e, w, run) ==
    [e EXCEPT !.codec_out_len = @ + run.len,
              !.thrown = IF run.ends = "ok" THEN "none" ELSE "runtime_error",
              !.events = Append(@, Ev("encode", run.ends, w, run.len))]

\* codec.encode / fb_codec.encode of width w bytes; run names how this run
\* of the codec ends and the length it stores in codec_out_len, which it is
\* handed by reference: the length of the stream when it ends well, and
\* whatever it had reached when it throws
encode(e, w, run) ==
    [e EXCEPT !.codec_out_len = run.len,
              !.thrown = IF run.ends = "ok" THEN "none" ELSE "runtime_error",
              !.events = Append(@, Ev("encode", run.ends, w, run.len))]

\* mutant: the 8-byte codec runs without being recorded as the one in use
encode_with_fallback_codec_unrecorded(e) ==
    LET b == IF ~e.fallback_codec_allocated
             THEN [e EXCEPT !.fallback_codec_allocated = TRUE,
                            !.events = Append(@, Ev("allocate_workspace", "fb_codec", 8, 0))]
             ELSE e
    IN  encode(b, 8, e.arg.fb_codec)

encode_with_fallback_codec(e) ==
    LET a == [e EXCEPT !.use_fallback_codec = TRUE]
        b == IF ~a.fallback_codec_allocated
             THEN [a EXCEPT !.fallback_codec_allocated = TRUE,
                            !.events = Append(@, Ev("allocate_workspace", "fb_codec", 8, 0))]
             ELSE a
    IN  encode(b, 8, e.arg.fb_codec)

\* try { codec.encode } catch (const std::runtime_error&) { fallback }
codec_do_with_exception(e) ==
    IF Thrown(e) THEN e
    ELSE IF ~e.arg.codec_force_fallback
    THEN LET t == encode(e, 4, e.arg.codec)
         IN  IF t.thrown = "runtime_error"
             THEN encode_with_fallback_codec([t EXCEPT !.thrown = "none"])
             ELSE t
    ELSE encode_with_fallback_codec(e)

update_header(e) ==
    IF Thrown(e) THEN e ELSE
    [e EXCEPT !.header.x = e.data_size[1],
              !.header.y = e.data_size[2],
              !.header.z = e.data_size[3],
              !.header.radius = e.arg.radius,
              !.header.vle_pardeg = e.arg.pardeg,
              !.header.eb = e.arg.ebx2,
              !.header.byte_vle = IF e.use_fallback_codec THEN 8 ELSE 4,
              !.events = Append(@, Ev("update_header", "header", 0, 0))]

\* uint32_t nbyte[HEADER::END], in words
subfile_nbyte(e) ==
    [k \in HEADER..SPFMT |->
        CASE k = HEADER -> static_cast_uint32(Words(HEADER_NBYTE))
          [] k = ANCHOR -> static_cast_uint32(get_anchor_len(e.data_size))
          [] k = VLE -> static_cast_uint32(e.codec_out_len)
          [] k = SPFMT -> static_cast_uint32(e.spfmt_out_len)]

\* header.entry[i] = nbyte[i - 1]; then header.entry[i] += header.entry[i - 1]
RECURSIVE subfile_entry(_, _)

subfile_entry(nbyte, i) ==
    IF i = 0 THEN 0
    ELSE static_cast_uint32(nbyte[i - 1] + subfile_entry(nbyte, i - 1))

\* the copy D2D_CPY(VAR, FIELD) issues: destination offset and length
D2D_CPY(entry, nbyte, FIELD, name) == Ev("D2D_CPY", name, entry[FIELD], nbyte[FIELD])

\* mutant: the copies are queued and the stream is not waited for
subfile_collect_unsynchronized(e) ==
    LET nbyte == subfile_nbyte(e)
        entry == [i \in HEADER..END |-> subfile_entry(nbyte, i)]
    IN  IF Thrown(e) THEN e ELSE
        [e EXCEPT !.header.header_nbyte = Words(HEADER_NBYTE),
                  !.header.entry = entry,
                  !.events = @ \o << Ev("H2D_CPY", "header", 0, Words(HEADER_NBYTE)),
                                     D2D_CPY(entry, nbyte, ANCHOR, "anchor"),
                                     D2D_CPY(entry, nbyte, VLE, "codec_out"),
                                     D2D_CPY(entry, nbyte, SPFMT, "spfmt") >>]

subfile_collect(e) ==
    LET nbyte == subfile_nbyte(e)
        entry == [i \in HEADER..END |-> subfile_entry(nbyte, i)]
    IN  IF Thrown(e) THEN e ELSE
        [e EXCEPT !.header.header_nbyte = Words(HEADER_NBYTE),
                  !.header.entry = entry,
                  !.events = @ \o << Ev("H2D_CPY", "header", 0, Words(HEADER_NBYTE)),
                                     D2D_CPY(entry, nbyte, ANCHOR, "anchor"),
                                     D2D_CPY(entry, nbyte, VLE, "codec_out"),
                                     D2D_CPY(entry, nbyte, SPFMT, "spfmt"),
                                     Ev("cudaStreamSynchronize", "stream", 0, 0) >>]

\* header.file_size()
file_size(h) == h.entry[END]

\* mutant: the codec runs before the gatherer
compress_stages_codec_first(e) ==
    spreducer_do(codec_do_with_exception(predictor_do(e)))

\* predictor_do(), spreducer_do(), codec_do_with_exception();
compress_stages(e) ==
    codec_do_with_exception(spreducer_do(predictor_do(e)))

cudaStreamSynchronize(e) ==
    IF Thrown(e) THEN e ELSE
    [e EXCEPT !.events = Append(@, Ev("cudaStreamSynchronize", "stream", 0, 0))]

compress_output(e) ==
    IF Thrown(e) THEN e ELSE
    [e EXCEPT !.compressed_len = [assigned |-> TRUE, value |-> file_size(e.header)],
              !.compressed = "d_reserved_compressed",
              !.use_fallback_codec = FALSE]

\* mutant: the subfiles are collected before the header is filled
compress_collect_first(e) ==
    compress_output(update_header(subfile_collect(cudaStreamSynchronize(
        compress_stages([e EXCEPT !.header.codecs_in_use = e.arg.codecs_in_use,
                                  !.header.nz_density_factor = e.arg.nz_density_factor])))))

\* the body of DefaultPathCompressor::compress
compress(e) ==
    compress_output(subfile_collect(update_header(cudaStreamSynchronize(
        compress_stages([e EXCEPT !.header.codecs_in_use = e.arg.codecs_in_use,
                                  !.header.nz_density_factor = e.arg.nz_density_factor])))))

(***************************************************************************)
(* DefaultPathCompressor::decompress.  The environment record holds the    *)
(* members, the arguments (e.arg: the header pointer and what it points    *)
(* to, the header stored at the start of the blob, the stream, how the     *)
(* codec's decode ends), the                                               *)
(* header the call works with (e.hdr) and the stages in issue order.  A    *)
(* stage is recorded with the stream it was handed and the offset into     *)
(* in_compressed its input pointer was derived with.                       *)
(***************************************************************************)
\* what a stage that is handed no stream is recorded with
StreamOmitted == "omitted"

\* ACCESSOR(SYM, TYPE): in_compressed + header->entry[HEADER::SYM]
ACCESSOR(hdr, SYM) == hdr.entry[SYM]

\* if (!header) { header = new HEADER; cudaMemcpyAsync(D2H); synchronize }
\* use_fallback_codec = header->byte_vle == 8
decompress_header(e) ==
    LET a == IF e.arg.header = nullptr
             THEN [e EXCEPT !.hdr = e.arg.blob_header,
                            !.events = @ \o << Ev("D2H_CPY", e.arg.stream, 0, Words(HEADER_NBYTE)),
                                               Ev("cudaStreamSynchronize", e.arg.stream, 0, 0) >>]
             ELSE [e EXCEPT !.hdr = e.arg.host_header]
    IN  [a EXCEPT !.use_fallback_codec = (a.hdr.byte_vle = 8)]

\* spreducer.scatter(d_spreducer_in, d_spreducer_out, stream)
scatter(e) ==
    IF Thrown(e) THEN e ELSE
    [e EXCEPT !.events = Append(@, Ev("scatter", e.arg.stream, ACCESSOR(e.hdr, SPFMT), 0))]

\* codec.decode(d_decoder_in, d_decoder_out) of the codec of width w
decode(e, w) ==
    IF e.arg.codec.ends = "ok"
    THEN [e EXCEPT !.events = Append(@, Ev("decode", StreamOmitted, ACCESSOR(e.hdr, VLE), w))]
    ELSE [e EXCEPT !.thrown = "runtime_error",
                   !.events = Append(@, Ev("decode", StreamOmitted, ACCESSOR(e.hdr, VLE), w))]

\* mutant: the Huffman subfile always goes to the 4-byte codec
decode_with_default_codec(e) ==
    IF Thrown(e) THEN e ELSE decode(e, 4)

\* the codec stage of decompress: the codec is picked by use_fallback_codec
\* and the 8-byte codec's workspace is allocated on first use
decompress_codec_do_with_exception(e) ==
    IF Thrown(e) THEN e
    ELSE IF ~e.use_fallback_codec THEN decode(e, 4)
    ELSE IF ~e.fallback_codec_allocated
    THEN decode([e EXCEPT !.fallback_codec_allocated = TRUE,
                          !.events = Append(@, Ev("allocate_workspace", "fb_codec",
                                                  e.hdr.radius * 2, e.hdr.vle_pardeg))], 8)
    ELSE decode(e, 8)

\* predictor.reconstruct(d_anchor, d_predictor_in, eb, radius, out, stream)
reconstruct(e) ==
    IF Thrown(e) THEN e ELSE
    [e EXCEPT !.events = Append(@, Ev("reconstruct", e.arg.stream, ACCESSOR(e.hdr, ANCHOR),
                                      e.hdr.radius))]

\* clear state for the next decompression after reporting
decompress_clear(e) ==
    IF Thrown(e) THEN e ELSE [e EXCEPT !.use_fallback_codec = FALSE]

\* the body of DefaultPathCompressor::decompress
decompress(e) ==
    decompress_clear(reconstruct(decompress_codec_do_with_exception(scatter(
        decompress_header(e)))))

(***************************************************************************)
(* The calls the model makes.                                              *)
(***************************************************************************)
\* <<x, y, z>> of the compressor: two short arrays, whose archive is longer
\* than the reserved buffer, and one whose archive can fit
DataSizes == { <<4, 1, 1>>, <<2, 2, 2>>, <<128, 1, 1>> }

\* the caller's arrays: constant, a spike of one and of two radii, and for
\* the short ones rough
InputGens(xyz) ==
    { [kind |-> "const", p |-> 0, at |-> 0],
      [kind |-> "spike", p |-> 1, at |-> 1],
      [kind |-> "spike", p |-> 2, at |-> 1] }
    \cup IF get_data_len(xyz) <= 2 * BLOCK3D
         THEN { [kind |-> "mix", p |-> 0, at |-> 0] }
         ELSE {}

\* radius and codecs_in_use of a call: the usual ones, both codecs named,
\* and the two the specification calls invalid
CallConfigs ==
    { [radius |-> 2, codecs_in_use |-> 1], [radius |-> 2, codecs_in_use |-> 3],
      [radius |-> 0, codecs_in_use |-> 1], [radius |-> 2, codecs_in_use |-> 0] }

\* how a run of the 4-byte codec can end: a stream of 8 words, a stream of
\* 4 GiB and 32 bytes, a code longer than the code word met after 4 words
\* were counted, another failure
CodecRuns ==
    { [ends |-> "ok", len |-> 8],
      [ends |-> "ok", len |-> 2 ^ 30 + 8],
      [ends |-> "ok", len |-> 2 ^ 30 - 16],
      [ends |-> "code too long", len |-> 4],
      [ends |-> "failure", len |-> 0] }

FallbackCodecRuns ==
    { [ends |-> "ok", len |-> 16],
      [ends |-> "failure", len |-> 0] }

NotRun == [ends |-> "not run", len |-> 0]

\* the ways the codec stage of a call can go
CodecPaths ==
    [codec_force_fallback : {FALSE}, codec : {r \in CodecRuns : r.ends = "ok"},
     fb_codec : {NotRun}]
    \cup [codec_force_fallback : {FALSE}, codec : {r \in CodecRuns : r.ends # "ok"},
          fb_codec : FallbackCodecRuns]
    \cup [codec_force_fallback : {TRUE}, codec : {NotRun}, fb_codec : FallbackCodecRuns]

UsualConfig == [radius |-> 2, codecs_in_use |-> 1]

UsualPath == [codec_force_fallback |-> FALSE, codec |-> [ends |-> "ok", len |-> 8],
              fb_codec |-> NotRun]

CompressArg(c, p) ==
    [ebx2 |-> 2, radius |-> c.radius, pardeg |-> 1,
     codecs_in_use |-> c.codecs_in_use, nz_density_factor |-> 4,
     codec_force_fallback |-> p.codec_force_fallback,
     codec |-> p.codec, fb_codec |-> p.fb_codec]

\* every codec path with the usual configuration, and every configuration
\* with the usual codec path
CompressArgs ==
    {CompressArg(UsualConfig, p) : p \in CodecPaths}
    \cup {CompressArg(c, UsualPath) : c \in CallConfigs}

UsualGen == [kind |-> "const", p |-> 0, at |-> 0]

\* the calls of compress: every array with the usual arguments, and every
\* argument with the usual array
CompressCalls(xyz) ==
    {[gen |-> g, arg |-> CompressArg(UsualConfig, UsualPath)] : g \in InputGens(xyz)}
    \cup {[gen |-> UsualGen, arg |-> a] : a \in CompressArgs}

EmptyHeader ==
    [x |-> 0, y |-> 0, z |-> 0, radius |-> 0, vle_pardeg |-> 0, eb |-> 0,
     byte_vle |-> 0, codecs_in_use |-> 0, nz_density_factor |-> 0,
     header_nbyte |-> 0, entry |-> [i \in HEADER..END |-> 0]]

\* the object's lifetime has not ended
Alive == last.op # "~DefaultPathCompressor"

\* delete p, behind "if (p)": the pointer members are never null after the
\* constructor that takes a dim3
delete(d, p) == [d EXCEPT ![p] = @ + 1]

\* if (spreducer) delete spreducer;  if (codec) delete codec;
\* if (fb_codec) delete codec;       if (predictor) delete predictor;
destructor(d) ==
    delete(delete(delete(delete(d, "spreducer"), "codec"), "codec"), "predictor")

\* DefaultPathCompressor(dim3 xyz)
Init ==
    /\ NoKernel
    /\ NoDriver
    /\ data_size \in DataSizes
    /\ use_fallback_codec = FALSE
    /\ fallback_codec_allocated = FALSE
    /\ codec_allocated = FALSE
    /\ density_factor = 0
    /\ d_reserved_compressed = [ptr |-> nullptr, nword |-> 0]
    /\ header = EmptyHeader
    /\ uncompressed = <<>>
    /\ compressed = nullptr
    /\ compressed_len = [assigned |-> FALSE, value |-> 0]
    /\ last = [op |-> "DefaultPathCompressor"]
    /\ deleted = [p \in Members |-> 0]

\* allocate_workspace(cfg_radius, cfg_pardeg, density_factor, codec_config)
AllocateWorkspace ==
    /\ Alive
    /\ d_reserved_compressed.ptr = nullptr
    /\ \E factor \in {4}, codec_config \in 0..3 :
        /\ density_factor' = factor
        /\ IF codec_config = 0
           THEN /\ last' = [op |-> "allocate_workspace", codec_config |-> codec_config,
                            result |-> "runtime_error"]
                /\ UNCHANGED <<codec_allocated, fallback_codec_allocated,
                               d_reserved_compressed>>
           ELSE /\ codec_allocated' = (codec_allocated \/ codec_config % 2 = 1)
                /\ fallback_codec_allocated' =
                       (fallback_codec_allocated \/ codec_config \div 2 = 1)
                /\ d_reserved_compressed' =
                       [ptr |-> "device",
                        nword |-> Words(get_data_len(data_size) * sizeof_T) \div 2]
                /\ last' = [op |-> "allocate_workspace", codec_config |-> codec_config,
                            result |-> "ok"]
        /\ UNCHANGED <<data_size, use_fallback_codec, header, uncompressed,
                       compressed, compressed_len, deleted>>
        /\ UNCHANGED kvars
        /\ UNCHANGED dvars

\* compress(uncompressed, eb, radius, pardeg, codecs_in_use,
\*          nz_density_factor, compressed, compressed_len, codec_force_fallback)
Compress ==
    /\ Alive
    /\ d_reserved_compressed.ptr # nullptr
    /\ \E call \in CompressCalls(data_size) :
        LET gen == call.gen
            arg == call.arg
            in == [gid \in 0..(get_data_len(data_size) - 1) |->
                      Sample(gen, <<0, data_size[1], data_size[2], data_size[3]>>,
                             2, arg.ebx2, gid)]
            e == [data_size |-> data_size,
                  use_fallback_codec |-> use_fallback_codec,
                  fallback_codec_allocated |-> fallback_codec_allocated,
                  density_factor |-> density_factor,
                  header |-> header,
                  uncompressed |-> in,
                  d_errctrl |-> <<>>,
                  spfmt_out_len |-> 0,
                  codec_out_len |-> 0,
                  compressed |-> nullptr,
                  compressed_len |-> [assigned |-> FALSE, value |-> 0],
                  arg |-> arg,
                  events |-> <<>>,
                  thrown |-> "none"]
        IN  \E r \in {compress(e)} :
            /\ use_fallback_codec' = r.use_fallback_codec
            /\ fallback_codec_allocated' = r.fallback_codec_allocated
            /\ header' = r.header
            /\ uncompressed' = r.uncompressed
            /\ compressed' = r.compressed
            /\ compressed_len' = r.compressed_len
            /\ last' = [op |-> "compress",
                        input |-> in,
                        ebx2 |-> arg.ebx2,
                        radius |-> arg.radius,
                        pardeg |-> arg.pardeg,
                        codecs_in_use |-> arg.codecs_in_use,
                        codec_force_fallback |-> arg.codec_force_fallback,
                        was_allocated |-> fallback_codec_allocated,
                        was_fallback |-> use_fallback_codec,
                        events |-> r.events,
                        spfmt_out_len |-> r.spfmt_out_len,
                        codec_out_len |-> r.codec_out_len,
                        d_errctrl |-> r.d_errctrl,
                        result |-> IF r.thrown = "none" THEN "ok" ELSE r.thrown]
    /\ UNCHANGED <<data_size, codec_allocated, density_factor, d_reserved_compressed,
                   deleted>>
    /\ UNCHANGED kvars
    /\ UNCHANGED dvars

\* the streams a caller passes: the default stream, and one created with
\* cudaStreamNonBlocking
Streams == {nullptr, "cudaStreamNonBlocking"}

DecodeRuns == { [ends |-> "ok", len |-> 0], [ends |-> "failure", len |-> 0] }

\* a header whose entry[] table is not monotonic
NonMonotonic(h) == [h EXCEPT !.entry[VLE] = h.entry[SPFMT] + 1]

\* a header whose entry[END] is not the length of the blob
EndMismatch(h) == [h EXCEPT !.entry[END] = @ + 1]

\* the header of an archive a compressor wrote with the other codec
OtherWidth(h) == [h EXCEPT !.byte_vle = IF @ = 8 THEN 4 ELSE 8]

DecompressArg(hp, h, stream, codec) ==
    [header |-> hp, host_header |-> h, blob_header |-> h, stream |-> stream,
     codec |-> codec]

\* the archive the compressor wrote last, handed back with its header on
\* the host or to be read from the blob, two archives with a damaged
\* header, and one of the other codec width
DecompressArgs(h) ==
    {DecompressArg("host", h, st, run) : st \in Streams, run \in DecodeRuns}
    \cup {DecompressArg(nullptr, h, nullptr, [ends |-> "ok", len |-> 0])}
    \cup {DecompressArg("host", NonMonotonic(h), nullptr, [ends |-> "ok", len |-> 0]),
          DecompressArg("host", EndMismatch(h), nullptr, [ends |-> "ok", len |-> 0]),
          DecompressArg("host", OtherWidth(h), nullptr, [ends |-> "ok", len |-> 0])}

\* decompress(in_compressed, header, out_decompressed, stream)
Decompress ==
    /\ Alive
    /\ d_reserved_compressed.ptr # nullptr
    /\ compressed_len.assigned
    /\ \E arg \in DecompressArgs(header) :
        LET e == [use_fallback_codec |-> use_fallback_codec,
                  fallback_codec_allocated |-> fallback_codec_allocated,
                  hdr |-> EmptyHeader,
                  arg |-> arg,
                  events |-> <<>>,
                  thrown |-> "none"]
        IN  \E r \in {decompress(e)} :
            /\ use_fallback_codec' = r.use_fallback_codec
            /\ fallback_codec_allocated' = r.fallback_codec_allocated
            /\ last' = [op |-> "decompress",
                        hdr |-> r.hdr,
                        header_arg |-> arg.header,
                        stream |-> arg.stream,
                        blob_len |-> compressed_len.value,
                        was_allocated |-> fallback_codec_allocated,
                        events |-> r.events,
                        result |-> IF r.thrown = "none" THEN "ok" ELSE r.thrown]
    /\ UNCHANGED <<data_size, codec_allocated, density_factor, d_reserved_compressed,
                   header, uncompressed, compressed, compressed_len, deleted>>
    /\ UNCHANGED kvars
    /\ UNCHANGED dvars

\* ~DefaultPathCompressor().  Deleting an object twice is undefined: the
\* destructor then either returns or the process aborts in the allocator.
Destroy ==
    /\ Alive
    /\ \E d \in {destructor(deleted)} :
        /\ deleted' = d
        /\ \E outcome \in IF \E p \in Members : d[p] > 1
                           THEN {"returned", "abort"} ELSE {"returned"} :
               last' = [op |-> "~DefaultPathCompressor", result |-> outcome]
    /\ UNCHANGED <<data_size, use_fallback_codec, fallback_codec_allocated,
                   codec_allocated, density_factor, d_reserved_compressed, header,
                   uncompressed, compressed, compressed_len>>
    /\ UNCHANGED kvars
    /\ UNCHANGED dvars

\* clear_buffer(): the components whose clear_buffer is called, in order
clear_buffer == << Ev("clear_buffer", "predictor", 0, 0),
                   Ev("clear_buffer", "codec", 0, 0),
                   Ev("clear_buffer", "spreducer", 0, 0) >>

\* A call of clear_buffer between two calls of the compressor.  What the
\* 4-byte codec does when its workspace was never allocated is not known:
\* the call then either returns or ends in an error.
ClearBuffer ==
    /\ Alive
    /\ d_reserved_compressed.ptr # nullptr
    /\ \E outcome \in IF codec_allocated THEN {"ok"} ELSE {"ok", "error"} :
           last' = [op |-> "clear_buffer",
                    events |-> clear_buffer,
                    was_allocated |-> fallback_codec_allocated,
                    result |-> outcome]
    /\ UNCHANGED <<data_size, use_fallback_codec, fallback_codec_allocated,
                   codec_allocated, density_factor, d_reserved_compressed, header,
                   uncompressed, compressed, compressed_len, deleted>>
    /\ UNCHANGED kvars
    /\ UNCHANGED dvars

Next ==
    \/ AllocateWorkspace
    \/ Compress
    \/ Decompress
    \/ ClearBuffer
    \/ Destroy

Spec == Init /\ [][Next]_vars

(***************************************************************************)
(* The command-line drivers.  Both pick the Huffman type of the compressor *)
(* and of the decompressor from ctx->huff_nbyte, each direction with its   *)
(* own if / else chain.                                                    *)
(***************************************************************************)
\* template <int WIDTH> struct HuffTrait: the type and its size in bytes
HuffTrait(WIDTH) ==
    CASE WIDTH = 4 -> [type |-> "uint32_t", nbyte |-> 4]
      [] WIDTH = 8 -> [type |-> "uint64_t", nbyte |-> 8]

\* no compressor or decompressor was instantiated
NoHuff == [type |-> "none", nbyte |-> 0]

HuffNbytes == {0, 2, 4, 8}

Drivers == {"main", "normal_path_lorenzo"}

DInit ==
    /\ NoKernel
    /\ NoCompressor
    /\ ctx \in [driver : Drivers, huff_nbyte : HuffNbytes,
                 construct : BOOLEAN, dryrun : BOOLEAN, reconstruct : BOOLEAN,
                 pre_binning : BOOLEAN]
    /\ huff = [construct |-> NoHuff, reconstruct |-> NoHuff]
    /\ dpc = "start"

\* main: the pre_binning exit, then if (task_is.construct or task_is.dryrun)
\* with if (huff_nbyte == 4) ... else ...
main_construct ==
    /\ dpc = "start"
    /\ ctx.driver = "main"
    /\ IF ctx.pre_binning
       THEN dpc' = "exit" /\ UNCHANGED huff
       ELSE /\ dpc' = "constructed"
            /\ IF ctx.construct \/ ctx.dryrun
               THEN IF ctx.huff_nbyte = 4
                    THEN huff' = [huff EXCEPT !.construct = HuffTrait(4)]
                    ELSE huff' = [huff EXCEPT !.construct = HuffTrait(8)]
               ELSE UNCHANGED huff
    /\ UNCHANGED ctx
    /\ UNCHANGED kvars
    /\ UNCHANGED ovars

\* main: if (task_is.reconstruct) with if (huff_nbyte == 4) ...
\* else if (huff_nbyte == 8) ..., both branches with HuffTrait<4>
main_reconstruct ==
    /\ dpc = "constructed"
    /\ ctx.driver = "main"
    /\ dpc' = "done"
    /\ IF ctx.reconstruct /\ ctx.huff_nbyte = 4
       THEN huff' = [huff EXCEPT !.reconstruct = HuffTrait(4)]
       ELSE IF ctx.reconstruct /\ ctx.huff_nbyte = 8
            THEN huff' = [huff EXCEPT !.reconstruct = HuffTrait(4)]
            ELSE UNCHANGED huff
    /\ UNCHANGED ctx
    /\ UNCHANGED kvars
    /\ UNCHANGED ovars

\* normal_path_lorenzo: if (task_is.construct or task_is.dryrun) with
\* if (huff_nbyte == 4) ... else if (huff_nbyte == 8) ... else throw
normal_path_lorenzo_construct ==
    /\ dpc = "start"
    /\ ctx.driver = "normal_path_lorenzo"
    /\ IF ctx.construct \/ ctx.dryrun
       THEN IF ctx.huff_nbyte = 4
            THEN huff' = [huff EXCEPT !.construct = HuffTrait(4)] /\ dpc' = "constructed"
            ELSE IF ctx.huff_nbyte = 8
                 THEN /\ huff' = [huff EXCEPT !.construct = HuffTrait(8)]
                      /\ dpc' = "constructed"
                 ELSE dpc' = "thrown" /\ UNCHANGED huff
       ELSE dpc' = "constructed" /\ UNCHANGED huff
    /\ UNCHANGED ctx
    /\ UNCHANGED kvars
    /\ UNCHANGED ovars

\* normal_path_lorenzo: if (task_is.reconstruct) with if (huff_nbyte == 4) ...
\* else if (huff_nbyte == 8) ...
normal_path_lorenzo_reconstruct ==
    /\ dpc = "constructed"
    /\ ctx.driver = "normal_path_lorenzo"
    /\ dpc' = "done"
    /\ IF ctx.reconstruct /\ ctx.huff_nbyte = 4
       THEN huff' = [huff EXCEPT !.reconstruct = HuffTrait(4)]
       ELSE IF ctx.reconstruct /\ ctx.huff_nbyte = 8
            THEN huff' = [huff EXCEPT !.reconstruct = HuffTrait(8)]
            ELSE UNCHANGED huff
    /\ UNCHANGED ctx
    /\ UNCHANGED kvars
    /\ UNCHANGED ovars

DNext ==
    \/ main_construct
    \/ main_reconstruct
    \/ normal_path_lorenzo_construct
    \/ normal_path_lorenzo_reconstruct

SpecDriver == DInit /\ [][DNext]_vars

(***************************************************************************)
(* Reference notions the claims are stated with.                           *)
(***************************************************************************)
\* s' = round(s / (2 * eb))
Prequant(c, gid) == round(c.data[gid], c.ebx2)

\* the extents of the region inside which a kernel predicts
TileOf(c) ==
    CASE c.rank = 1 -> <<BLOCK1D, 1, 1>>
      [] c.rank = 2 -> <<BLOCK2D, BLOCK2D, 1>>
      [] c.rank = 3 -> <<BLOCK3D, BLOCK3D, BLOCK3D>>

\* s' of the neighbour g - d, or zero when it is outside the grid or the tile of g
NeighbourValue(c, g, d) ==
    LET n == [a \in 1..3 |-> g[a] - d[a]]
        t == TileOf(c)
    IN  IF \A a \in 1..3 : n[a] >= 0 /\ n[a] \div t[a] = g[a] \div t[a]
        THEN Prequant(c, n[1] + n[2] * stridey(c) + n[3] * stridez(c))
        ELSE 0

\* the Lorenzo prediction p: inclusion-exclusion over the lower-index neighbours
LorenzoPrediction(c, gid) ==
    LET g == <<GixOf(c, gid), GiyOf(c, gid), GizOf(c, gid)>>
    IN  NeighbourValue(c, g, <<1, 0, 0>>) + NeighbourValue(c, g, <<0, 1, 0>>)
        + NeighbourValue(c, g, <<0, 0, 1>>)
        - NeighbourValue(c, g, <<1, 1, 0>>) - NeighbourValue(c, g, <<1, 0, 1>>)
        - NeighbourValue(c, g, <<0, 1, 1>>)
        + NeighbourValue(c, g, <<1, 1, 1>>)

\* delta = s' - p
Residual(c, gid) == Prequant(c, gid) - LorenzoPrediction(c, gid)

Indices == DOMAIN kin.data

(***************************************************************************)
(* C1: reconstructing with x_lorenzo_* from the (quant, outlier) arrays    *)
(* that c_lorenzo_* produced with the same radius and eb recovers the      *)
(* prequantized integer round(s / (2 eb)) at every index, so that every    *)
(* reconstructed sample is within eb of the original (|s_hat - s| <= eb,   *)
(* stated as 2 |s_hat - s| <= 2 eb).                                       *)
(***************************************************************************)
C1_RoundTripWithinEb ==
    kpc = "reconstructed" =>
        \A gid \in Indices :
            /\ kxdata[gid] = Prequant(kin, gid) * kin.ebx2
            /\ 2 * Abs(kxdata[gid] - kin.data[gid]) <= kin.ebx2

C1_Witness ==
    /\ kpc = "reconstructed"
    /\ kin.rank = 3
    /\ \E gid \in Indices : kquant[gid] = 0 /\ koutlier[gid] # 0
    /\ \E gid \in Indices : kxdata[gid] # kin.data[gid]

(***************************************************************************)
(* C2, as claimed: after the predictor has run, exactly one of Q[i] == 0   *)
(* and O[i] == 0 holds at every index i.                                   *)
(***************************************************************************)
C2_ExactlyOneZero ==
    kpc # "input" =>
        \A gid \in Indices : (kquant[gid] = 0) # (koutlier[gid] = 0)

(***************************************************************************)
(* C2, amended: Q[i] and O[i] are never both non-zero; they are both zero  *)
(* exactly when the residual at i equals -radius (the outlier carrier      *)
(* delta + radius is then 0), and otherwise exactly one of them is zero.   *)
(***************************************************************************)
C2_NeverBothNonZero ==
    kpc # "input" =>
        \A gid \in Indices :
            /\ ~(kquant[gid] # 0 /\ koutlier[gid] # 0)
            /\ (kquant[gid] = 0 /\ koutlier[gid] = 0)
                   <=> (Residual(kin, gid) = -kin.radius)

C2_Witness ==
    /\ kpc = "compressed"
    /\ \E gid \in Indices : kquant[gid] = 0 /\ koutlier[gid] = 0
    /\ \E gid \in Indices : kquant[gid] = 0 /\ koutlier[gid] # 0
    /\ \E gid \in Indices : kquant[gid] # 0 /\ koutlier[gid] = 0

(***************************************************************************)
(* C3: with delta = s' - p, the predictor emits Q[i] = delta + radius and  *)
(* O[i] = 0 when |delta| < radius, and Q[i] = 0 and O[i] = delta + radius  *)
(* otherwise; every Q[i] lies in [0, 2 radius) and Q[i] == 0 iff the       *)
(* residual at i is out of range.                                          *)
(***************************************************************************)
C3_QuantizationRule ==
    kpc # "input" =>
        \A gid \in Indices :
            LET delta == Residual(kin, gid)
            IN  /\ Abs(delta) < kin.radius =>
                       kquant[gid] = delta + kin.radius /\ koutlier[gid] = 0
                /\ ~(Abs(delta) < kin.radius) =>
                       kquant[gid] = 0 /\ koutlier[gid] = delta + kin.radius
                /\ kquant[gid] \in 0..(2 * kin.radius - 1)
                /\ (kquant[gid] = 0) <=> ~(Abs(delta) < kin.radius)

C3_Witness ==
    /\ kpc = "compressed"
    /\ kin.rank = 2
    /\ \E gid \in Indices :
          Abs(Residual(kin, gid)) >= kin.radius /\ koutlier[gid] # 0
    /\ \E gid \in Indices :
          Residual(kin, gid) # 0 /\ kquant[gid] = Residual(kin, gid) + kin.radius

\* the residual the reconstruct kernel of the input's rank restores at gid
\* before its prefix sum
RestoredResidual(gid) ==
    CASE kin.rank = 1 -> x_lorenzo_1d1l_fuse(kin, kquant, koutlier, gid)
      [] kin.rank = 2 -> x_lorenzo_2d1l_fuse(kin, kquant, koutlier,
                                             GixOf(kin, gid), GiyOf(kin, gid))
      [] kin.rank = 3 -> x_lorenzo_3d1l_fuse(kin, [quant |-> kquant, outlier |-> koutlier],
                                             GixOf(kin, gid), GiyOf(kin, gid),
                                             GizOf(kin, gid))

(***************************************************************************)
(* C18, as claimed: the reconstruct kernels restore the residual at every  *)
(* in-grid index i as delta = (Q[i] == 0 ? O[i] : Q[i] - radius).          *)
(***************************************************************************)
C18_RestoreSelect ==
    kpc = "reconstructed" =>
        \A gid \in Indices :
            RestoredResidual(gid) =
                IF kquant[gid] = 0 THEN koutlier[gid] ELSE kquant[gid] - kin.radius

(***************************************************************************)
(* C18, amended: the reconstruct kernels restore the residual at every     *)
(* in-grid index i as delta = O[i] + Q[i] - radius, that is Q[i] - radius  *)
(* where Q[i] is not 0 and O[i] - radius where it is; this is the residual *)
(* s' - p the compress kernel encoded.                                     *)
(***************************************************************************)
C18_RestoreSum ==
    kpc = "reconstructed" =>
        \A gid \in Indices :
            /\ RestoredResidual(gid) = koutlier[gid] + kquant[gid] - kin.radius
            /\ RestoredResidual(gid) =
                   IF kquant[gid] = 0 THEN koutlier[gid] - kin.radius
                                      ELSE kquant[gid] - kin.radius
            /\ RestoredResidual(gid) = Residual(kin, gid)

C18_Witness ==
    /\ kpc = "reconstructed"
    /\ kin.rank = 2
    /\ \E gid \in Indices :
          /\ kquant[gid] = 0
          /\ koutlier[gid] # 0
          /\ RestoredResidual(gid) = koutlier[gid] - kin.radius
    /\ \E gid \in Indices : kquant[gid] # 0 /\ kquant[gid] # kin.radius

\* the tiles as claimed: 256 wide, 16 x 16, 32 x 8 x 8
ClaimedTile(c) ==
    CASE c.rank = 1 -> <<BLOCK1D, 1, 1>>
      [] c.rank = 2 -> <<BLOCK2D, BLOCK2D, 1>>
      [] c.rank = 3 -> <<4 * BLOCK3D, BLOCK3D, BLOCK3D>>

\* s' of the neighbour g - d, or zero when it is outside the grid or outside
\* the tile of extents t that holds g
NeighbourValueIn(c, t, g, d) ==
    LET n == [a \in 1..3 |-> g[a] - d[a]]
    IN  IF \A a \in 1..3 : n[a] >= 0 /\ n[a] \div t[a] = g[a] \div t[a]
        THEN Prequant(c, n[1] + n[2] * stridey(c) + n[3] * stridez(c))
        ELSE 0

\* the Lorenzo prediction from every lower-index neighbour inside the tile
PredictionIn(c, t, gid) ==
    LET g == <<GixOf(c, gid), GiyOf(c, gid), GizOf(c, gid)>>
    IN  NeighbourValueIn(c, t, g, <<1, 0, 0>>) + NeighbourValueIn(c, t, g, <<0, 1, 0>>)
        + NeighbourValueIn(c, t, g, <<0, 0, 1>>)
        - NeighbourValueIn(c, t, g, <<1, 1, 0>>) - NeighbourValueIn(c, t, g, <<1, 0, 1>>)
        - NeighbourValueIn(c, t, g, <<0, 1, 1>>)
        + NeighbourValueIn(c, t, g, <<1, 1, 1>>)

\* the prediction the arrays written for index gid were computed with
UsedPrediction(gid) == Prequant(kin, gid) - (kquant[gid] + koutlier[gid] - kin.radius)

\* gid and hid lie in the same tile of the kernel
SameTile(c, gid, hid) ==
    /\ GixOf(c, gid) \div TileOf(c)[1] = GixOf(c, hid) \div TileOf(c)[1]
    /\ GiyOf(c, gid) \div TileOf(c)[2] = GiyOf(c, hid) \div TileOf(c)[2]
    /\ GizOf(c, gid) \div TileOf(c)[3] = GizOf(c, hid) \div TileOf(c)[3]

\* the first index of every tile
TileOrigins ==
    {gid \in Indices : /\ GixOf(kin, gid) % TileOf(kin)[1] = 0
                       /\ GiyOf(kin, gid) % TileOf(kin)[2] = 0
                       /\ GizOf(kin, gid) % TileOf(kin)[3] = 0}

\* the input with every sample outside the tile of hid replaced by zero
OnlyTile(c, hid) ==
    [c EXCEPT !.data = [gid \in DOMAIN c.data |->
                           IF SameTile(c, gid, hid) THEN c.data[gid] ELSE 0]]

\* the compress kernel of the input's rank
CKernel(c) ==
    CASE c.rank = 1 -> c_lorenzo_1d1l(c)
      [] c.rank = 2 -> c_lorenzo_2d1l_16x16data_mapto16x2(c)
      [] c.rank = 3 -> c_lorenzo_3d1l_32x8x8data_mapto32x1x8(c)

(***************************************************************************)
(* C19, as claimed: the prediction for a sample is made of every           *)
(* lower-index Lorenzo neighbour inside the sample's tile, the tiles being *)
(* 256 wide in 1D, 16 x 16 in 2D and 32 x 8 x 8 in 3D, and of zero for     *)
(* every neighbour outside that tile or outside the grid.                  *)
(***************************************************************************)
C19_TileAsClaimed ==
    kpc # "input" =>
        \A gid \in Indices :
            UsedPrediction(gid) = PredictionIn(kin, ClaimedTile(kin), gid)

(***************************************************************************)
(* C19, amended: the same with tiles of 8 x 8 x 8 in 3D (256 wide in 1D,   *)
(* 16 x 16 in 2D); and no prediction reads a value of another tile: with   *)
(* every sample outside a tile set to zero, the kernel writes the same     *)
(* quant code and outlier at every index of that tile.                     *)
(***************************************************************************)
C19_TileIndependence ==
    kpc # "input" =>
        /\ \A gid \in Indices :
               UsedPrediction(gid) = PredictionIn(kin, TileOf(kin), gid)
        /\ \A hid \in TileOrigins :
               LET r == CKernel(OnlyTile(kin, hid))
               IN  \A gid \in Indices :
                       SameTile(kin, gid, hid) =>
                           /\ r.quant[gid] = kquant[gid]
                           /\ r.outlier[gid] = koutlier[gid]

C19_Witness ==
    /\ kpc = "compressed"
    /\ kin.rank = 3
    /\ Cardinality(TileOrigins) > 1
    /\ \E gid \in Indices :
          /\ GixOf(kin, gid) = BLOCK3D
          /\ Prequant(kin, gid - 1) # 0
          /\ UsedPrediction(gid) = 0

\* every sample of the input has the same value
AllConstant == \A gid, hid \in Indices : kin.data[gid] = kin.data[hid]

(***************************************************************************)
(* C20, as claimed: for an all-constant input the predictor emits          *)
(* Q[i] == radius at every index i and no outlier.                         *)
(***************************************************************************)
C20_ConstantAllRadius ==
    (kpc # "input" /\ AllConstant) =>
        \A gid \in Indices : kquant[gid] = kin.radius /\ koutlier[gid] = 0

(***************************************************************************)
(* C20, amended: for an all-constant input of value c the predictor emits  *)
(* Q[i] == radius and O[i] == 0 at every index that is not the first of    *)
(* its tile; at the first index of each tile the residual is the           *)
(* prequantized value c' = round(c / (2 eb)) itself, so Q is c' + radius   *)
(* when |c'| < radius and the sample is an outlier otherwise.  All codes   *)
(* equal radius exactly when c' = 0.                                       *)
(***************************************************************************)
C20_ConstantExceptOrigins ==
    (kpc # "input" /\ AllConstant) =>
        /\ \A gid \in Indices \ TileOrigins :
               kquant[gid] = kin.radius /\ koutlier[gid] = 0
        /\ \A gid \in TileOrigins :
               LET cq == Prequant(kin, gid)
               IN  IF Abs(cq) < kin.radius
                   THEN kquant[gid] = cq + kin.radius /\ koutlier[gid] = 0
                   ELSE kquant[gid] = 0 /\ koutlier[gid] = cq + kin.radius
        /\ (\A gid \in Indices : kquant[gid] = kin.radius)
               <=> (\A gid \in Indices : Prequant(kin, gid) = 0)

C20_Witness ==
    /\ kpc = "compressed"
    /\ AllConstant
    /\ Cardinality(TileOrigins) > 1
    /\ \E gid \in Indices \ TileOrigins : kquant[gid] = kin.radius
    /\ \E gid \in TileOrigins : kquant[gid] \notin {0, kin.radius}
    /\ \E gid \in Indices : kin.data[gid] # 0

\* the indices of the samples that are not zero
NonZeroSamples == {gid \in Indices : kin.data[gid] # 0}

\* a 1D input that is zero except for one sample, whose prequantized
\* magnitude is at least radius
IsolatedSpike ==
    /\ kin.rank = 1
    /\ Cardinality(NonZeroSamples) = 1
    /\ \A gid \in NonZeroSamples : Abs(Prequant(kin, gid)) >= kin.radius

(***************************************************************************)
(* C21, as claimed: for a 1D input that is zero except for one spike of    *)
(* prequantized magnitude at least radius, the predictor marks the spike   *)
(* index and no other as an outlier, and the outlier array has exactly one *)
(* non-zero, at the spike index.                                           *)
(***************************************************************************)
C21_OneOutlier ==
    (kpc # "input" /\ IsolatedSpike) =>
        /\ {gid \in Indices : kquant[gid] = 0} = NonZeroSamples
        /\ {gid \in Indices : koutlier[gid] # 0} = NonZeroSamples

(***************************************************************************)
(* C21, amended: the spike of prequantized value v at index i makes two    *)
(* residuals leave the range, v at i and -v at i + 1: the predictor marks  *)
(* i and, when i + 1 is in the grid and in the tile of i, also i + 1       *)
(* (Q == 0), with O[i] = v + radius and O[i + 1] = radius - v, and every   *)
(* other index has Q == radius and O == 0.  The number of non-zeros of O   *)
(* counts O[i] unless v = -radius and O[i + 1], when i + 1 is marked,      *)
(* unless v = radius: it is 2 for a spike above radius inside a tile.      *)
(***************************************************************************)
C21_SpikeAndNext ==
    (kpc # "input" /\ IsolatedSpike) =>
        \A i \in NonZeroSamples :
            LET v == Prequant(kin, i)
                marked == {i} \cup {j \in {i + 1} : j \in Indices /\ SameTile(kin, i, j)}
            IN  /\ \A gid \in marked : kquant[gid] = 0
                /\ koutlier[i] = v + kin.radius
                /\ \A gid \in marked \ {i} : koutlier[gid] = kin.radius - v
                /\ \A gid \in Indices \ marked :
                       kquant[gid] = kin.radius /\ koutlier[gid] = 0
                /\ Cardinality({gid \in Indices : koutlier[gid] # 0})
                       = (IF v # -kin.radius THEN 1 ELSE 0)
                         + (IF marked # {i} /\ v # kin.radius THEN 1 ELSE 0)

C21_Witness ==
    /\ kpc = "compressed"
    /\ IsolatedSpike
    /\ Cardinality({gid \in Indices : koutlier[gid] # 0}) = 2
    /\ \E gid \in NonZeroSamples :
          koutlier[gid] # 0 /\ koutlier[gid + 1] # 0 /\ kquant[gid + 1] = 0

\* the sum of the grid coordinates of a sample
CoordSum(gid) == GixOf(kin, gid) + GiyOf(kin, gid) + GizOf(kin, gid)

\* the slopes g for which the input is the 3D linear ramp g * (i + j + k) and
\* prequantization is exact (g is a multiple of 2 eb)
RampSlopes ==
    {g \in 1..MaxGain :
        /\ kin.rank = 3
        /\ g % kin.ebx2 = 0
        /\ \A gid \in Indices : kin.data[gid] = g * CoordSum(gid)}

\* the number of coordinates of a sample that are not at the start of its tile
InsideCount(gid) ==
    Cardinality({a \in 1..3 :
        <<GixOf(kin, gid), GiyOf(kin, gid), GizOf(kin, gid)>>[a] % TileOf(kin)[a] # 0})

Covering(n, t) == 0..((((n - 1) \div t) + 1) * t - 1)

\* write1d: data[id] and quant[id] under if (id < dimx)
write1d_ids(c) == {id \in Covering(c.dimx, BLOCK1D) : id < c.dimx}

\* postquant_write2d: outlier[gid] and quant[gid] under
\* if (gix < dimx && giy_base + i - 1 < dimy)
postquant_write2d_ids(c) ==
    {giy * stridey(c) + gix :
        <<gix, giy>> \in {g \in Covering(c.dimx, BLOCK2D) \X Covering(c.dimy, BLOCK2D) :
                             InGrid2(c, g[1], g[2])}}

\* c_lorenzo_3d1l: outlier[id] and quant[id] under
\* if (gix < dimx && (giy_base + y) < dimy && giz < dimz)
c_lorenzo_3d1l_ids(c) ==
    {g[3] * stridez(c) + g[2] * stridey(c) + g[1] :
        g \in {h \in Covering(c.dimx, 4 * BLOCK3D) \X Covering(c.dimy, BLOCK3D)
                        \X Covering(c.dimz, BLOCK3D) :
                  InGrid3(c, h[1], h[2], h[3])}}

\* x_lorenzo_1d1l: BlockLoad(..).Load(quant + (BIX * BDX) * SEQ, ..) and the same
\* for outlier read the whole tile of the block: no guard, no valid_items
x_lorenzo_1d1l_BlockLoad(c) == Covering(c.dimx, BLOCK1D)

\* x_lorenzo_1d1l: BlockStore(..).Store(xdata + (BIX * BDX) * SEQ, ..) writes the
\* whole tile of the block
x_lorenzo_1d1l_BlockStore(c) == Covering(c.dimx, BLOCK1D)

\* x_lorenzo_2d1l: the fused load and the store, both under
\* if (gix < dimx && giy_base + i < dimy)
x_lorenzo_2d1l_ids(c) ==
    {giy * stridey(c) + gix :
        <<gix, giy>> \in {g \in Covering(c.dimx, BLOCK2D) \X Covering(c.dimy, BLOCK2D) :
                             InGrid2(c, g[1], g[2])}}

\* x_lorenzo_3d1l: the fused load and the store, both under
\* if (gix < dimx && giy_base + y < dimy && giz < dimz)
x_lorenzo_3d1l_ids(c) ==
    {g[3] * stridez(c) + g[2] * stridey(c) + g[1] :
        g \in {h \in Covering(c.dimx, 4 * BLOCK3D) \X Covering(c.dimy, BLOCK3D)
                        \X Covering(c.dimz, BLOCK3D) :
                  InGrid3(c, h[1], h[2], h[3])}}

\* the indices of Q and O the compress kernel of the rank writes
CompressWrites(c) ==
    CASE c.rank = 1 -> write1d_ids(c)
      [] c.rank = 2 -> postquant_write2d_ids(c)
      [] c.rank = 3 -> c_lorenzo_3d1l_ids(c)

\* the indices of quant and outlier the reconstruct kernel of the rank reads
ReconstructReads(c) ==
    CASE c.rank = 1 -> x_lorenzo_1d1l_BlockLoad(c)
      [] c.rank = 2 -> x_lorenzo_2d1l_ids(c)
      [] c.rank = 3 -> x_lorenzo_3d1l_ids(c)

\* the indices of xdata the reconstruct kernel of the rank writes
ReconstructWrites(c) ==
    CASE c.rank = 1 -> x_lorenzo_1d1l_BlockStore(c)
      [] c.rank = 2 -> x_lorenzo_2d1l_ids(c)
      [] c.rank = 3 -> x_lorenzo_3d1l_ids(c)

(***************************************************************************)
(* C25: no Lorenzo kernel accesses memory outside the grid: the compress   *)
(* kernel writes Q and O only at in-grid indices, and the reconstruct      *)
(* kernel reads quant and outlier and writes xdata only at indices         *)
(* 0 <= i < N, for N not a multiple of the tile included.                  *)
(***************************************************************************)
C25_InGridAccess ==
    /\ kpc # "input" => CompressWrites(kin) \subseteq Indices
    /\ kpc \in {"reconstructed", "reconstructed_var"} =>
          /\ ReconstructReads(kin) \subseteq Indices
          /\ ReconstructWrites(kin) \subseteq Indices

(***************************************************************************)
(* C26: the two 3D reconstruction kernels are equivalent: on the same      *)
(* quant and outlier arrays x_lorenzo_3d1lvar_32x8x8data_mapto32x1x8       *)
(* writes the same xdata as x_lorenzo_3d1l_32x8x8data_mapto32x1x8, at      *)
(* every index.                                                            *)
(***************************************************************************)
C26_VariantEquivalent ==
    kpc = "reconstructed_var" =>
        kxdata = x_lorenzo_3d1l_32x8x8data_mapto32x1x8(kin,
                     [quant |-> kquant, outlier |-> koutlier])

C26_Witness ==
    /\ kpc = "reconstructed_var"
    /\ kin.dimy > BLOCK3D
    /\ \E gid \in Indices : kquant[gid] = 0 /\ koutlier[gid] # 0
    /\ \E gid, hid \in Indices :
          /\ GiyOf(kin, gid) > 0
          /\ kxdata[gid] # 0
          /\ kxdata[hid] # kxdata[gid]

(***************************************************************************)
(* Notions the claims about compress are stated with.                      *)
(***************************************************************************)
\* the array the caller passed to the last compress, as the predictor saw it
CallInput ==
    [rank |-> PredictorRank(data_size), dimx |-> data_size[1],
     dimy |-> data_size[2], dimz |-> data_size[3], radius |-> last.radius,
     ebx2 |-> last.ebx2, junk |-> 0, data |-> last.input]

\* the stages of the last call that are of one kind, in the order they ran
CallEvents(kind) ==
    LET OfKind(v) == v.ev = kind
    IN  SelectSeq(last.events, OfKind)

\* the copies into the reserved buffer the last call issued
CallCopies ==
    LET IsCopy(v) == v.ev \in {"H2D_CPY", "D2D_CPY"}
    IN  SelectSeq(last.events, IsCopy)

\* the archive's length as the sum of the lengths the stages reported
TrueArchiveLen ==
    Words(HEADER_NBYTE) + get_anchor_len(data_size) + last.codec_out_len
    + last.spfmt_out_len

\* the environment the last call of compress started in, with other
\* arguments; every header field a successful call leaves is written by it
CallEnv(arg) ==
    [data_size |-> data_size,
     use_fallback_codec |-> last.was_fallback,
     fallback_codec_allocated |-> last.was_allocated,
     density_factor |-> density_factor,
     header |-> EmptyHeader,
     uncompressed |-> last.input,
     d_errctrl |-> <<>>,
     spfmt_out_len |-> 0,
     codec_out_len |-> 0,
     compressed |-> nullptr,
     compressed_len |-> [assigned |-> FALSE, value |-> 0],
     arg |-> arg,
     events |-> <<>>,
     thrown |-> "none"]

(***************************************************************************)
(* C4, as claimed: after compress returns, every element of the            *)
(* uncompressed buffer equals its value before the call.                   *)
(***************************************************************************)
C4_InputNotModified ==
    last.op = "compress" => uncompressed = last.input

(***************************************************************************)
(* C4, amended: compress overwrites the caller's array in place with the   *)
(* dense outlier array: after the call uncompressed[i] is 0 where the      *)
(* residual at i is quantizable (|delta| < radius) and delta + radius      *)
(* where it is not, delta being taken on the values before the call.       *)
(***************************************************************************)
C4_InputHoldsOutliers ==
    last.op = "compress" =>
        /\ DOMAIN uncompressed = DOMAIN last.input
        /\ \A gid \in DOMAIN uncompressed :
               LET delta == Residual(CallInput, gid)
               IN  uncompressed[gid] =
                       IF Abs(delta) < last.radius THEN 0 ELSE delta + last.radius

C4_Witness ==
    /\ last.op = "compress"
    /\ last.result = "ok"
    /\ last.radius > 0
    /\ \E gid \in DOMAIN uncompressed :
          uncompressed[gid] # 0 /\ uncompressed[gid] # last.input[gid]

(***************************************************************************)
(* C5: for every archive compress produces, entry[HEADER] = 0, entry[k] <= *)
(* entry[k+1] for k in HEADER..SPFMT, and entry[END] is 128 bytes plus the  *)
(* anchor, Huffman and sparse lengths, which is the reported               *)
(* compressed_len (lengths in 4-byte words).                               *)
(***************************************************************************)
C5_EntryTable ==
    (last.op = "compress" /\ last.result = "ok") =>
        /\ header.entry[HEADER] = 0
        /\ \A k \in HEADER..SPFMT : header.entry[k] <= header.entry[k + 1]
        /\ header.entry[END] = TrueArchiveLen
        /\ compressed_len.assigned
        /\ compressed_len.value = header.entry[END]

(***************************************************************************)
(* C6: when compress is called with codec_force_fallback = false and the   *)
(* 4-byte encode aborts with a code-too-long error, the 8-byte codec's     *)
(* encode runs next and runs once, after its workspace was allocated if it *)
(* was not; if that encode succeeds the call succeeds with                 *)
(* header.byte_vle = 8, and if it fails the failure reaches the caller     *)
(* with no further encode.                                                 *)
(***************************************************************************)
C6_WidthFallbackOnce ==
    LET enc == CallEvents("encode")
        alloc == CallEvents("allocate_workspace")
    IN  (/\ last.op = "compress"
         /\ ~last.codec_force_fallback
         /\ Len(enc) >= 1
         /\ enc[1].a = 4
         /\ enc[1].f = "code too long") =>
            /\ Len(enc) = 2
            /\ enc[2].a = 8
            /\ Len(alloc) = (IF last.was_allocated THEN 0 ELSE 1)
            /\ fallback_codec_allocated
            /\ \A i, j \in DOMAIN last.events :
                   (last.events[i].ev = "allocate_workspace"
                    /\ last.events[j].ev = "encode" /\ last.events[j].a = 8) => i < j
            /\ enc[2].f = "ok" =>
                   /\ last.result = "ok"
                   /\ header.byte_vle = 8
                   /\ compressed = "d_reserved_compressed"
            /\ enc[2].f # "ok" =>
                   /\ last.result = "runtime_error"
                   /\ compressed = nullptr

C6_Witness ==
    LET enc == CallEvents("encode")
    IN  /\ last.op = "compress"
        /\ ~last.codec_force_fallback
        /\ ~last.was_allocated
        /\ Len(enc) = 2
        /\ enc[1].f = "code too long"
        /\ enc[2].f = "ok"
        /\ header.byte_vle = 8
        /\ last.result = "ok"

(***************************************************************************)
(* C7: a failure of the 4-byte codec's encode other than a code-length     *)
(* overflow is propagated to the caller as fatal and does not cause the    *)
(* 8-byte fallback codec to be run.                                        *)
(***************************************************************************)
C7_OnlyCodeLengthRecovered ==
    LET enc == CallEvents("encode")
    IN  (/\ last.op = "compress"
         /\ Len(enc) >= 1
         /\ enc[1].a = 4
         /\ enc[1].f = "failure") =>
            /\ last.result # "ok"
            /\ Len(enc) = 1

(***************************************************************************)
(* C8: if the archive would be longer than the reserved buffer of          *)
(* N * sizeof(T) / 2 bytes, compress reports an error instead of producing *)
(* the archive, and no copy writes at or beyond the end of the reserved    *)
(* buffer.                                                                 *)
(***************************************************************************)
C8_InflationRefused ==
    last.op = "compress" =>
        /\ \A i \in DOMAIN CallCopies :
               CallCopies[i].b > 0 =>
                   CallCopies[i].a + CallCopies[i].b <= d_reserved_compressed.nword
        /\ (last.result = "ok" => TrueArchiveLen <= d_reserved_compressed.nword)

(***************************************************************************)
(* C9: if the gatherer signals capacity exceeded (the outlier array holds  *)
(* more than N / density_factor non-zeros), compress ends with a fatal     *)
(* error: no codec's encode is invoked, no subfile is copied into the      *)
(* reserved buffer, and compressed and compressed_len are left unassigned. *)
(***************************************************************************)
C9_GatherCapacityFatal ==
    (/\ last.op = "compress"
     /\ nnz(uncompressed) > get_data_len(data_size) \div density_factor) =>
        /\ last.result = "runtime_error"
        /\ Len(CallEvents("gather")) = 1
        /\ CallEvents("gather")[1].f = "capacity exceeded"
        /\ CallEvents("encode") = <<>>
        /\ CallCopies = <<>>
        /\ compressed = nullptr
        /\ ~compressed_len.assigned

C9_Witness ==
    /\ last.op = "compress"
    /\ last.radius > 0
    /\ nnz(uncompressed) > get_data_len(data_size) \div density_factor
    /\ last.result = "runtime_error"
    /\ CallEvents("encode") = <<>>

(***************************************************************************)
(* C10: a call with radius <= 0, pardeg <= 0, codecs_in_use = 0 or a zero  *)
(* dimension fails with an error before any stage runs, in                 *)
(* allocate_workspace (codec_config = 0) and in compress alike.            *)
(***************************************************************************)
C10_InvalidConfigRejected ==
    /\ (last.op = "allocate_workspace" /\ last.codec_config = 0) =>
           last.result # "ok"
    /\ (/\ last.op = "compress"
        /\ \/ last.radius <= 0
           \/ last.pardeg <= 0
           \/ last.codecs_in_use = 0
           \/ get_data_len(data_size) = 0) =>
           /\ last.result # "ok"
           /\ last.events = <<>>

(***************************************************************************)
(* Claims about decompress and the destructor.                             *)
(***************************************************************************)
\* the stages of decompress the last call issued, in issue order
DecompressStages ==
    LET IsStage(v) == v.ev \in {"scatter", "decode", "reconstruct"}
    IN  SelectSeq(last.events, IsStage)

\* the stream a recorded stage runs on: a launch that is handed no stream
\* goes to the default stream
StreamOf(v) == IF v.f = StreamOmitted THEN nullptr ELSE v.f

(***************************************************************************)
(* C11: a decompress whose header has a non-monotonic entry[] table, or an *)
(* entry[END] that is not the blob's length, ends with HeaderInvalid       *)
(* before scatter, decode or reconstruct is handed a pointer derived from  *)
(* entry[].                                                                *)
(***************************************************************************)
C11_HeaderInvalidRejected ==
    (/\ last.op = "decompress"
     /\ \/ \E k \in HEADER..SPFMT : last.hdr.entry[k] > last.hdr.entry[k + 1]
        \/ last.hdr.entry[END] # last.blob_len)
    => (last.result = "HeaderInvalid" /\ DecompressStages = <<>>)

C13_CodecPerByteVle ==
    (last.op = "decompress" /\ last.hdr.byte_vle \in {4, 8})
    => LET dec == CallEvents("decode")
           alloc == CallEvents("allocate_workspace")
       IN  /\ Len(dec) = 1
           /\ dec[1].b = last.hdr.byte_vle
           /\ IF last.hdr.byte_vle = 8 /\ ~last.was_allocated
              THEN /\ alloc = << Ev("allocate_workspace", "fb_codec",
                                    last.hdr.radius * 2, last.hdr.vle_pardeg) >>
                   /\ \E i \in DOMAIN last.events :
                          /\ last.events[i].ev = "allocate_workspace"
                          /\ last.events[i + 1].ev = "decode"
                   /\ fallback_codec_allocated
              ELSE /\ alloc = <<>>
                   /\ fallback_codec_allocated = last.was_allocated

C13_Witness ==
    /\ last.op = "decompress"
    /\ last.result = "ok"
    /\ last.hdr.byte_vle = 8
    /\ ~last.was_allocated
    /\ fallback_codec_allocated
    /\ \E i \in DOMAIN last.events :
          last.events[i].ev = "decode" /\ last.events[i].b = 8

(***************************************************************************)
(* C14: within one compress the stages run in the order predictor,         *)
(* gatherer, encode, header fill, subfile concatenation; each runs at most *)
(* once, except encode, which runs a second time, with the 8-byte codec,   *)
(* exactly when its first run, with the 4-byte codec, failed; a stage is   *)
(* not run unless the one before it ran; a failure of the gatherer or of   *)
(* the second encode is the last thing the call does; a call that returns  *)
(* ran all five.                                                           *)
(***************************************************************************)
C14_StageOrder ==
    last.op = "compress" =>
        LET Rank(v) == CASE v.ev = "construct" -> 1
                         [] v.ev = "gather" -> 2
                         [] v.ev = "encode" -> 3
                         [] v.ev = "update_header" -> 4
                         [] v.ev \in {"H2D_CPY", "D2D_CPY"} -> 5
                         [] OTHER -> 0
            IsStage(v) == Rank(v) > 0
            S == SelectSeq(last.events, IsStage)
            Count(k) == Cardinality({i \in DOMAIN S : Rank(S[i]) = k})
            enc == CallEvents("encode")
        IN  /\ \A i, j \in DOMAIN S : i < j => Rank(S[i]) <= Rank(S[j])
            /\ Count(1) = 1
            /\ Count(2) <= 1 /\ Count(4) <= 1 /\ Count(5) \in {0, 4}
            /\ \A k \in 2..5 : Count(k) > 0 => Count(k - 1) > 0
            /\ Len(enc) <= 2
            /\ Len(enc) = 2 <=> (/\ ~last.codec_force_fallback
                                 /\ Len(enc) >= 1
                                 /\ enc[1].a = 4
                                 /\ enc[1].f # "ok")
            /\ Len(enc) = 2 => enc[2].a = 8
            /\ \A i \in DOMAIN last.events :
                   (\/ last.events[i].ev = "gather" /\ last.events[i].f # "ok"
                    \/ /\ last.events[i].ev = "encode"
                       /\ last.events[i].f # "ok"
                       /\ last.events[i].a = 8)
                   => (i = Len(last.events) /\ last.result # "ok")
            /\ last.result = "ok" => \A k \in 1..5 : Count(k) > 0

C14_Witness ==
    /\ last.op = "compress"
    /\ last.result = "ok"
    /\ Len(CallEvents("encode")) = 2
    /\ Len(CallEvents("update_header")) = 1
    /\ Len(CallCopies) = 4

(***************************************************************************)
(* C15: when compress reports compressed_len and compressed, the copy of   *)
(* the header and the device-to-device copies of the anchor, Huffman and   *)
(* sparse subfiles have been queued in that order on the stream and the    *)
(* host has waited for the stream after the last of them: operations of    *)
(* one stream complete in issue order, so all four have completed.         *)
(***************************************************************************)
C15_CopiesCommitted ==
    (last.op = "compress" /\ last.result = "ok")
    => /\ compressed_len.assigned
       /\ Len(CallCopies) = 4
       /\ CallCopies[1].ev = "H2D_CPY" /\ CallCopies[1].f = "header"
       /\ \A k \in 2..4 : CallCopies[k].ev = "D2D_CPY"
       /\ <<CallCopies[2].f, CallCopies[3].f, CallCopies[4].f>>
              = <<"anchor", "codec_out", "spfmt">>
       /\ \A i \in DOMAIN last.events :
              last.events[i].ev \in {"H2D_CPY", "D2D_CPY"}
              => \E j \in DOMAIN last.events :
                     j > i /\ last.events[j] = Ev("cudaStreamSynchronize", "stream", 0, 0)

C15_Witness ==
    /\ last.op = "compress"
    /\ last.result = "ok"
    /\ compressed_len.assigned
    /\ compressed = "d_reserved_compressed"
    /\ Len(last.events) >= 2
    /\ last.events[Len(last.events) - 1].ev = "D2D_CPY"
    /\ last.events[Len(last.events)].ev = "cudaStreamSynchronize"

(***************************************************************************)
(* C16: a decompress that returns has issued scatter, decode and           *)
(* reconstruct, in that order, all three on the stream the caller passed,  *)
(* so that stream order alone puts reconstruct after the other two; this   *)
(* for every stream, a non-blocking one included.                          *)
(***************************************************************************)
C16_SingleStream ==
    (last.op = "decompress" /\ last.result = "ok")
    => /\ Len(DecompressStages) = 3
       /\ <<DecompressStages[1].ev, DecompressStages[2].ev, DecompressStages[3].ev>>
              = <<"scatter", "decode", "reconstruct">>
       /\ \A i \in 1..3 : StreamOf(DecompressStages[i]) = last.stream

(***************************************************************************)
(* C17: after the destructor every object the constructor made with new    *)
(* (predictor, sparse reducer, 4-byte codec, 8-byte codec) has been        *)
(* deleted exactly once, the reserved buffer allocate_workspace made is    *)
(* freed, and the destructor has returned.                                 *)
(***************************************************************************)
C17_ReleasedExactlyOnce ==
    last.op = "~DefaultPathCompressor"
    => /\ \A p \in Members : deleted[p] = 1
       /\ d_reserved_compressed.ptr \in {nullptr, "freed"}
       /\ last.result = "returned"

(***************************************************************************)
(* C23: over any sequence of calls, those ending in an exception included, *)
(* the header of a compress that returns has byte_vle == 8 exactly when    *)
(* the payload of that call was produced by the 8-byte codec and 4 exactly *)
(* when it was produced by the 4-byte codec: the use_fallback_codec left   *)
(* by an earlier call never reaches a later one.                           *)
(***************************************************************************)
C23_ByteVleOfThisCall ==
    (last.op = "compress" /\ last.result = "ok")
    => LET enc == CallEvents("encode")
       IN  /\ enc # <<>>
           /\ enc[Len(enc)].f = "ok"
           /\ header.byte_vle = enc[Len(enc)].a
           /\ ~last.was_fallback

(***************************************************************************)
(* C24: encode and decode are never invoked on a codec whose workspace is  *)
(* not allocated: the 4-byte codec is used only after allocate_workspace   *)
(* was called with bit 0b01 of codec_config, and the 8-byte codec only     *)
(* after it was allocated, by allocate_workspace or earlier in the call.   *)
(***************************************************************************)
C24_CodecWorkspaceAllocated ==
    (last.op \in {"compress", "decompress"})
    => \A i \in DOMAIN last.events :
          LET v == last.events[i]
              width == IF v.ev = "encode" THEN v.a ELSE v.b
          IN  v.ev \in {"encode", "decode"} =>
                 /\ width = 4 => codec_allocated
                 /\ width = 8 =>
                        \/ last.was_allocated
                        \/ \E j \in 1..(i - 1) : last.events[j].ev = "allocate_workspace"

\* the components the last clear_buffer cleared
Cleared == {last.events[i].f : i \in DOMAIN last.events}

(***************************************************************************)
(* C27: clear_buffer resets the buffers of every component a call may have *)
(* used and touches only allocated components: it clears the predictor and *)
(* the gatherer, the 8-byte codec whenever its workspace is allocated, and *)
(* the 4-byte codec when, and only when, its workspace is allocated.       *)
(***************************************************************************)
C27_ClearsWhatIsAllocated ==
    last.op = "clear_buffer" =>
        /\ {"predictor", "spreducer"} \subseteq Cleared
        /\ "codec" \in Cleared <=> codec_allocated
        /\ "fb_codec" \in Cleared <=> fallback_codec_allocated

\* the length each stage reported for its subfile, in words
SubfileLen ==
    [k \in HEADER..SPFMT |->
        CASE k = HEADER -> Words(HEADER_NBYTE)
          [] k = ANCHOR -> get_anchor_len(data_size)
          [] k = VLE -> last.codec_out_len
          [] k = SPFMT -> last.spfmt_out_len]

(***************************************************************************)
(* C28: compress places the header in bytes [0, 128) and subfile k         *)
(* (anchor, Huffman, sparse), whole, in bytes [entry[k], entry[k+1]) of    *)
(* the reserved buffer: consecutive ranges, pairwise disjoint, covering    *)
(* [0, entry[END]) without a gap; and decompress gives each stage the      *)
(* pointer blob + entry[k] of the same k (reconstruct ANCHOR, decode VLE,  *)
(* scatter SPFMT).                                                         *)
(***************************************************************************)
C28_ArchiveLayout ==
    /\ (last.op = "compress" /\ last.result = "ok") =>
          /\ Len(CallCopies) = END
          /\ header.entry[HEADER] = 0
          /\ header.entry[ANCHOR] = Words(HEADER_NBYTE)
          /\ \A k \in HEADER..SPFMT :
                /\ CallCopies[k + 1].a = header.entry[k]
                /\ CallCopies[k + 1].b = SubfileLen[k]
                /\ header.entry[k] + SubfileLen[k] = header.entry[k + 1]
    /\ (last.op = "decompress" /\ last.result = "ok") =>
          /\ \A i \in DOMAIN last.events :
                LET v == last.events[i]
                IN  /\ v.ev = "scatter" => v.a = last.hdr.entry[SPFMT]
                    /\ v.ev = "decode" => v.a = last.hdr.entry[VLE]
                    /\ v.ev = "reconstruct" => v.a = last.hdr.entry[ANCHOR]
          /\ Len(CallEvents("scatter")) = 1
          /\ Len(CallEvents("decode")) = 1
          /\ Len(CallEvents("reconstruct")) = 1

(***************************************************************************)
(* C29: a driver run decompresses with a Huffman codec of the width it     *)
(* compresses with for the same huff_nbyte: for huff_nbyte == 4 each       *)
(* direction that runs uses the 4-byte type, for huff_nbyte == 8 the       *)
(* 8-byte type.                                                            *)
(***************************************************************************)
C29_SameHuffWidth ==
    (dpc = "done" /\ ctx.huff_nbyte \in {4, 8}) =>
        /\ huff.construct # NoHuff => huff.construct.nbyte = ctx.huff_nbyte
        /\ huff.reconstruct # NoHuff => huff.reconstruct.nbyte = ctx.huff_nbyte
        /\ (huff.construct # NoHuff /\ huff.reconstruct # NoHuff) =>
               huff.construct = huff.reconstruct

\* the positions in the last call's log of the events of some kinds
PositionsOf(kinds) == {i \in DOMAIN last.events : last.events[i].ev \in kinds}

\* the stages of compress have all been issued, then the host has waited for
\* the stream, and only then are the header and entry[] filled and copied
FilledAfterSync ==
    \A u \in PositionsOf({"update_header", "H2D_CPY", "D2D_CPY"}) :
        \E w \in PositionsOf({"cudaStreamSynchronize"}) :
            /\ w < u
            /\ \A kind \in {"construct", "gather", "encode"} :
                   \E t \in PositionsOf({kind}) : t < w
            /\ \A t \in PositionsOf({"construct", "gather", "encode"}) : t < w

(***************************************************************************)
(* C30, as claimed: in compress the header fields and entry[] are filled   *)
(* only after predictor, gatherer and codec have been issued and the host  *)
(* has synchronized with the stream, and that synchronization is the only  *)
(* host-side synchronization point of the compress path.                   *)
(***************************************************************************)
C30_SingleSync ==
    last.op = "compress" =>
        /\ FilledAfterSync
        /\ Cardinality(PositionsOf({"cudaStreamSynchronize"})) <= 1

(***************************************************************************)
(* C30, amended: entry[] and the header fields x, y, z, radius,            *)
(* vle_pardeg, eb, byte_vle are filled only after predictor, gatherer and  *)
(* codec have been issued and the host has synchronized with the stream    *)
(* (codecs_in_use and nz_density_factor are copied from the arguments on   *)
(* entry, before any stage, also by a call that fails).  A compress that   *)
(* returns has two host-side synchronization points: that one, right       *)
(* before the header is filled, and a second one, the last thing           *)
(* subfile_collect does, after the four copies.  A compress that fails     *)
(* has none.                                                               *)
(***************************************************************************)
C30_TwoSyncs ==
    last.op = "compress" =>
        /\ FilledAfterSync
        /\ header.codecs_in_use = last.codecs_in_use
        /\ IF last.result = "ok"
           THEN /\ Cardinality(PositionsOf({"cudaStreamSynchronize"})) = 2
                /\ \E u \in PositionsOf({"update_header"}) :
                       last.events[u - 1].ev = "cudaStreamSynchronize"
                /\ last.events[Len(last.events)].ev = "cudaStreamSynchronize"
                /\ last.events[Len(last.events) - 1].ev = "D2D_CPY"
                /\ Cardinality(PositionsOf({"update_header"})) = 1
           ELSE PositionsOf({"cudaStreamSynchronize", "update_header",
                             "H2D_CPY", "D2D_CPY"}) = {}

C30_Witness ==
    /\ last.op = "compress"
    /\ last.result = "ok"
    /\ Cardinality(PositionsOf({"cudaStreamSynchronize"})) = 2
    /\ Cardinality(PositionsOf({"encode"})) = 2
    /\ header.entry[END] > header.entry[ANCHOR]
    /\ header.x = data_size[1]

====
